---- MODULE Spec2Model ----
(***************************************************************************)
(* The Dojo relay's event store (relay/src/database.ts) and credential     *)
(* chain verifier (relay/src/credentials.ts) as a state machine.           *)
(*                                                                         *)
(* Representation of strings.  A string that the code splits on ':' is     *)
(* represented by the sequence of its maximal colon-free segments, so      *)
(* "30301:R:dir" is <<"30301", "R", "dir">>; split(':') yields that        *)
(* sequence, slice(2).join(':') yields its tail, two strings are equal     *)
(* iff their segment sequences are.  An absent tag (undefined / SQL NULL)  *)
(* is the empty sequence for such strings and Undefined for the others.    *)
(* Numeric tags stay decimal strings and go through ParseInt.              *)
(***************************************************************************)
EXTENDS Integers, Sequences, FiniteSets, TLC

VARIABLES
    events,       \* table events: the set of stored event rows
    credentials,  \* table credentials: event_id -> row
    schemas,      \* table schemas: ref -> row
    clock,        \* wall time, Math.floor(Date.now() / 1000)
    vc,           \* the pending verifyChain call of a running verify
    ret,          \* what the last completed operation returned
    saved,        \* history: the events saveEvent has been called with
    addressed,    \* history: <<grant id, revocation id>>, the revocation was
                  \* saved while the grant was stored and its `a` tag is the
                  \* grant's composite address
    subscriptions, \* relay: client -> (subscription id -> filters)
    handling      \* relay: the handleEvent call waiting for verify to return

vars == <<events, credentials, schemas, clock, vc, ret, saved, addressed,
          subscriptions, handling>>

(***************************************************************************)
(* Bounds of the model.                                                    *)
(***************************************************************************)
MaxNum == 6        \* decimal strings "0" .. "6" occur in numeric tags
MaxSaved == 4      \* distinct events handed to saveEvent in one run
MaxClock == 1      \* wall time runs over 0 .. MaxClock
MaxAdmitted == 3   \* distinct events the relay hands to saveEvent in one run
MaxSubs == 2       \* subscriptions open at one time, all clients together

(***************************************************************************)
(* JavaScript / SQL values.                                                *)
(***************************************************************************)
Undefined == "undefined"   \* getTagValue found no such tag
NoParts == <<>>            \* the same, for a tag represented by its segments
NaN == -1                  \* parseInt of a string that starts with no digit
Null == -2                 \* JS null / SQL NULL in a numeric position

EVENT_KINDS == [METADATA |-> 0, TEXT_NOTE |-> 1, CONTACTS |-> 3, DELETE |-> 5,
                CREDENTIAL_SCHEMA |-> 30100, CREDENTIAL_GRANT |-> 30101,
                CREDENTIAL_REVOCATION |-> 30102, CREDENTIAL_RENEWAL |-> 30103]

\* parseInt(s, 10) on the strings that occur: a decimal numeral or not a number
ParseInt(s) ==
    IF \E n \in 0..MaxNum : ToString(n) = s
    THEN CHOOSE n \in 0..MaxNum : ToString(n) = s
    ELSE NaN

\* parseInt of the kind segment of a composite address
ParseKind(s) ==
    CASE s = "30100" -> 30100
      [] s = "30101" -> 30101
      [] s = "30300" -> 30300
      [] s = "30301" -> 30301
      [] OTHER -> NaN

\* `x === 'perpetual' ? null : parseInt(x ?? '0', 10) || null`
ParseExpires(x) ==
    IF x = "perpetual" THEN Null
    ELSE LET n == ParseInt(IF x = Undefined THEN "0" ELSE x)
         IN IF n = NaN \/ n = 0 THEN Null ELSE n

\* JS comparisons: every comparison with NaN is false
NumLt(a, b) == a # NaN /\ b # NaN /\ a < b
NumGt(a, b) == NumLt(b, a)
NumLe(a, b) == a # NaN /\ b # NaN /\ a <= b

(***************************************************************************)
(* Public keys and event ids.  Ids are 64-digit lowercase hex strings, so  *)
(* their text order is a total order; IdOrder lists the ids that occur in  *)
(* ascending text order.                                                   *)
(***************************************************************************)
Pubkeys == {"R", "A", "B", "M"}

IdOrder == <<"e01", "e02", "e03", "e04", "e05", "e06", "e07", "e08", "e09",
             "e10", "e11", "e12", "e13", "e14", "e15", "e16",
             "k00", "k01", "k02", "k03", "k04", "k05", "k06", "k07", "k08",
             "k09", "k10", "k11", "k12",
             "m00", "m01", "m02", "m03", "m04", "m05", "m06", "m07", "m08",
             "m09", "m10", "m11", "m12", "m13", "m14", "m15", "m16",
             "n01", "n02", "n03", "n04", "n05", "n06", "n07", "n08", "n09", "n10",
             "r00", "r01", "r02", "r03", "r04", "r05", "r06", "r07", "r08",
             "r09", "r10", "r11", "r12", "r13", "r14", "r15", "r16">>

IdRank(id) == CHOOSE i \in DOMAIN IdOrder : IdOrder[i] = id

\* SQL text comparison `id < ?`
IdLess(x, y) == IdRank(x) < IdRank(y)

(***************************************************************************)
(* Events.  The tags array is flattened to the value getTagValue returns   *)
(* for each tag name the store and the verifier read.                      *)
(***************************************************************************)
BaseEvent(id, pubkey, created_at, kind) ==
    [id |-> id, pubkey |-> pubkey, created_at |-> created_at, kind |-> kind,
     d |-> NoParts, a |-> NoParts, chain |-> NoParts,
     p |-> Undefined, class |-> Undefined, issued |-> Undefined,
     expires |-> Undefined, reason |-> Undefined, expiration |-> Undefined,
     name |-> Undefined, e |-> {}, sig |-> "signed", content |-> ""]

SchemaEvent(id, pubkey, created_at, d, content) ==
    [BaseEvent(id, pubkey, created_at, EVENT_KINDS.CREDENTIAL_SCHEMA)
        EXCEPT !.d = d, !.name = "schema", !.content = content]

GrantEvent(id, pubkey, created_at, d, p, a, class, issued, expires, chain) ==
    [BaseEvent(id, pubkey, created_at, EVENT_KINDS.CREDENTIAL_GRANT)
        EXCEPT !.d = d, !.p = p, !.a = a, !.class = class, !.issued = issued,
               !.expires = expires, !.chain = chain]

RevocationEvent(id, pubkey, created_at, a, reason) ==
    [BaseEvent(id, pubkey, created_at, EVENT_KINDS.CREDENTIAL_REVOCATION)
        EXCEPT !.a = a, !.reason = reason]

RenewalEvent(id, pubkey, created_at, a, expires) ==
    [BaseEvent(id, pubkey, created_at, EVENT_KINDS.CREDENTIAL_RENEWAL)
        EXCEPT !.a = a, !.expires = expires]

(***************************************************************************)
(* Schema documents: JSON.parse of a schema event's content.               *)
(***************************************************************************)
ClassDef(scope, issued_by, max_days, renewable, cascade_revoke) ==
    [scope |-> scope, issued_by |-> issued_by, max_days |-> max_days,
     renewable |-> renewable, cascade_revoke |-> cascade_revoke,
     missing |-> {}]   \* the members the JSON object of the class lacks

\* the training hierarchy of the use-case tests: director > instructor > trainee
TrainingClasses ==
    [director   |-> ClassDef({"instructor"}, {"root"}, 365, TRUE, FALSE),
     instructor |-> ClassDef({"trainee"}, {"director"}, 365, TRUE, FALSE),
     trainee    |-> ClassDef({}, {"instructor"}, 180, FALSE, FALSE)]

\* one class whose holders may appoint further holders
MeshClasses ==
    [peer |-> ClassDef({"peer"}, {"root", "peer"}, Null, TRUE, FALSE)]

\* two root-issued classes that appoint instructors, one cascading its
\* revocation and one not renewable, and a root-issued class of zero days
LifecycleClasses ==
    [director   |-> ClassDef({"instructor"}, {"root"}, Null, TRUE, TRUE),
     warden     |-> ClassDef({"instructor"}, {"root"}, Null, FALSE, FALSE),
     instructor |-> ClassDef({}, {"director", "warden"}, Null, TRUE, FALSE),
     badge      |-> ClassDef({}, {"root"}, 0, TRUE, FALSE)]

\* JSON.parse(content) as CredentialSchema; ok = FALSE when JSON.parse throws
JSONParse(content) ==
    CASE content = "training" -> [ok |-> TRUE, classes |-> TrainingClasses]
      [] content = "mesh"     -> [ok |-> TRUE, classes |-> MeshClasses]
      [] content = "lifecycle" -> [ok |-> TRUE, classes |-> LifecycleClasses]
      \* a scope that names a class the document does not have
      [] content = "dangling" ->
           [ok |-> TRUE,
            classes |-> [lead |-> ClassDef({"ghost"}, {"root"}, Null, TRUE, FALSE)]]
      \* an issued_by that names a class the document does not have
      [] content = "orphan" ->
           [ok |-> TRUE,
            classes |-> [lead |-> ClassDef({}, {"root", "ghost"}, Null, TRUE, FALSE)]]
      \* a scope that names a member every JavaScript object inherits
      [] content = "inherited" ->
           [ok |-> TRUE,
            classes |-> [lead |-> ClassDef({"constructor"}, {"root"}, Null, TRUE,
                                           FALSE)]]
      \* `{"classes": {}}`
      [] content = "empty" -> [ok |-> TRUE, classes |-> <<>>]
      \* a class object without a name
      [] content = "unnamed" ->
           [ok |-> TRUE,
            classes |-> [lead |-> [ClassDef({}, {"root"}, Null, TRUE, FALSE)
                                      EXCEPT !.missing = {"name"}]]]
      [] OTHER                -> [ok |-> FALSE, classes |-> <<>>]

(***************************************************************************)
(* The event store (class EventStore).                                     *)
(***************************************************************************)
\* `classes[key]` is truthy: key is a class id, or the name of a member an
\* object made by JSON.parse inherits from Object.prototype
HasMember(classes, key) ==
    key \in DOMAIN classes \/ key \in {"constructor", "toString"}

\* `!x` on a tag value: undefined or the empty string
Falsy(x) == x = Undefined \/ x = ""
FalsyParts(x) == x = NoParts \/ x = <<"">>

isReplaceable(kind) == kind = 0 \/ kind = 3 \/ (kind >= 10000 /\ kind < 20000)

isParameterizedReplaceable(kind) == kind >= 30000 /\ kind < 40000

\* `created_at < ? OR (created_at = ? AND id < ?)` of the two DELETE statements
Older(row, event) ==
    \/ row.created_at < event.created_at
    \/ row.created_at = event.created_at /\ IdLess(row.id, event.id)

\* rows removed by the DELETE for replaceable kinds
ReplaceableVictims(rows, event) ==
    IF isReplaceable(event.kind)
    THEN {r \in rows : r.kind = event.kind /\ r.pubkey = event.pubkey
                       /\ Older(r, event)}
    ELSE {}

\* rows removed by the DELETE for parameterized replaceable kinds
ParameterizedVictims(rows, event) ==
    IF isParameterizedReplaceable(event.kind) /\ event.d # NoParts
    THEN {r \in rows : r.kind = event.kind /\ r.pubkey = event.pubkey
                       /\ r.d = event.d /\ Older(r, event)}
    ELSE {}

\* INSERT OR IGNORE INTO events: a row with the same primary key stays
InsertOrIgnore(rows, event) ==
    IF \E r \in rows : r.id = event.id THEN rows ELSE rows \cup {event}

\* credentials.event_id REFERENCES events(id), without a cascade
CascadeKeep(creds, rows) == creds

\* credentials.event_id REFERENCES events(id) ON DELETE CASCADE
CascadeDelete(creds, rows) ==
    [id \in {i \in DOMAIN creds : \E r \in rows : r.id = i} |-> creds[id]]

\* INSERT OR REPLACE of one row into a table keyed by `key`
Upsert(table, key, row) ==
    [k \in DOMAIN table \cup {key} |-> IF k = key THEN row ELSE table[k]]

\* indexCredential returns early when one of a, class, p, issued is missing
IndexSkips(event) ==
    FalsyParts(event.a) \/ Falsy(event.class) \/ Falsy(event.p)
        \/ Falsy(event.issued)

\* issued_at INTEGER NOT NULL: binding parseInt(...) = NaN binds NULL and the
\* statement throws
IndexThrows(event) == ~IndexSkips(event) /\ ParseInt(event.issued) = NaN

\* the row indexCredential writes; INSERT OR REPLACE leaves the columns it
\* does not name (revoked_at, revoke_reason) at their default NULL
CredentialRow(event) ==
    [schema_ref |-> event.a, class_id |-> event.class, recipient |-> event.p,
     issuer |-> event.pubkey, issued_at |-> ParseInt(event.issued),
     expires_at |-> ParseExpires(event.expires), chain_ref |-> event.chain,
     revoked |-> 0, revoked_at |-> Null, revoke_reason |-> Undefined]

\* an indexCredential that writes no row
indexNothing(creds, event) == creds

indexCredential(creds, event) ==
    IF IndexSkips(event) THEN creds
    ELSE Upsert(creds, event.id, CredentialRow(event))

\* the address the schema cache is keyed by
SchemaRefOf(event) == <<"30300", event.pubkey>> \o event.d

cacheSchema(cache, event) ==
    IF FalsyParts(event.d) THEN cache
    ELSE Upsert(cache, SchemaRefOf(event),
                [pubkey |-> event.pubkey, d_tag |-> event.d,
                 content |-> event.content, created_at |-> event.created_at])

\* the guard shared by processRevocation and processRenewal:
\* `parts.length < 3 || parts[0] !== '30301'`
RefersToGrant(parts) == Len(parts) >= 3 /\ parts[1] = "30301"

\* `const credentialId = parts[2]`
CredentialIdOf(parts) == parts[3]

processRevocation(creds, event) ==
    IF FalsyParts(event.a) \/ ~RefersToGrant(event.a) THEN creds
    ELSE [id \in DOMAIN creds |->
            IF id = CredentialIdOf(event.a)
            THEN [creds[id] EXCEPT
                    !.revoked = 1,
                    !.revoked_at = event.created_at,
                    !.revoke_reason = IF event.reason = Undefined
                                      THEN "unspecified" ELSE event.reason]
            ELSE creds[id]]

\* parseInt(newExpires, 10), NaN being bound as NULL
RenewedExpiry(event) ==
    IF ParseInt(event.expires) = NaN THEN Null ELSE ParseInt(event.expires)

\* an UPDATE without `AND revoked = 0`
processRenewalAnyRow(creds, event) ==
    IF FalsyParts(event.a) \/ Falsy(event.expires) \/ ~RefersToGrant(event.a)
    THEN creds
    ELSE [id \in DOMAIN creds |->
            IF id = CredentialIdOf(event.a)
            THEN [creds[id] EXCEPT !.expires_at = RenewedExpiry(event)]
            ELSE creds[id]]

processRenewal(creds, event) ==
    IF FalsyParts(event.a) \/ Falsy(event.expires) \/ ~RefersToGrant(event.a)
    THEN creds
    ELSE [id \in DOMAIN creds |->
            IF id = CredentialIdOf(event.a) /\ creds[id].revoked = 0
            THEN [creds[id] EXCEPT !.expires_at = RenewedExpiry(event)]
            ELSE creds[id]]

\* saveEvent on the store (rows, creds, cache): the tables afterwards and the
\* value returned
saveEvent(rows, creds, cache, event) ==
    LET victims == ReplaceableVictims(rows, event)
                     \cup ParameterizedVictims(rows, event)
        rows1 == rows \ victims
        creds1 == CascadeDelete(creds, rows1)
        rows2 == InsertOrIgnore(rows1, event)
    IN  IF event.kind = EVENT_KINDS.CREDENTIAL_GRANT /\ IndexThrows(event)
        THEN [events |-> rows2, credentials |-> creds1, schemas |-> cache,
              ok |-> FALSE]
        ELSE [events |-> rows2,
              credentials |->
                CASE event.kind = EVENT_KINDS.CREDENTIAL_GRANT ->
                       indexCredential(creds1, event)
                  [] event.kind = EVENT_KINDS.CREDENTIAL_REVOCATION ->
                       processRevocation(creds1, event)
                  [] event.kind = EVENT_KINDS.CREDENTIAL_RENEWAL ->
                       processRenewal(creds1, event)
                  [] OTHER -> creds1,
              schemas |-> IF event.kind = EVENT_KINDS.CREDENTIAL_SCHEMA
                          THEN cacheSchema(cache, event) ELSE cache,
              ok |-> TRUE]

(***************************************************************************)
(* queryEvents.  A filter field that is absent or an empty array adds no   *)
(* condition; it is the empty set here (Null for since, until, limit).     *)
(***************************************************************************)
Filter(ids, authors, kinds, d) ==
    [ids |-> ids, authors |-> authors, kinds |-> kinds, d |-> d, a |-> {},
     since |-> Null, until |-> Null, limit |-> Null]

\* the events.expires_at column: the expiration tag through parseInt
ExpiresAtColumn(row) ==
    IF Falsy(row.expiration) \/ ParseInt(row.expiration) = NaN THEN Null
    ELSE ParseInt(row.expiration)

\* a WHERE clause without the condition on expires_at
NeverExpired(row, now) == TRUE

\* `(expires_at IS NULL OR expires_at > ?)` with ? = now
NotExpired(row, now) ==
    ExpiresAtColumn(row) = Null \/ ExpiresAtColumn(row) > now

\* the WHERE clause
Matches(rows, filter, now) ==
    {r \in rows :
        /\ filter.ids = {} \/ r.id \in filter.ids
        /\ filter.authors = {} \/ r.pubkey \in filter.authors
        /\ filter.kinds = {} \/ r.kind \in filter.kinds
        /\ filter.a = {} \/ (r.a # NoParts /\ r.a \in filter.a)
        /\ filter.d = {} \/ (r.d # NoParts /\ r.d \in filter.d)
        /\ filter.since = Null \/ r.created_at >= filter.since
        /\ filter.until = Null \/ r.created_at <= filter.until
        /\ NotExpired(r, now)}

MaxCreatedAt(rows) ==
    CHOOSE t \in {r.created_at : r \in rows} :
        \A r \in rows : r.created_at <= t

\* ORDER BY created_at DESC LIMIT n: rows of equal created_at come in an order
\* SQL leaves open, so this is the set of the sequences a query may return
RECURSIVE Ordered(_, _)
Ordered(rows, n) ==
    IF rows = {} \/ n = 0 THEN {<<>>}
    ELSE UNION {{<<r>> \o s : s \in Ordered(rows \ {r}, n - 1)} :
                r \in {x \in rows : x.created_at = MaxCreatedAt(rows)}}

DefaultLimit == 500

queryEvents(rows, filter, now) ==
    Ordered(Matches(rows, filter, now),
            IF filter.limit = Null THEN DefaultLimit ELSE filter.limit)

getCredential(creds, eventId) ==
    IF eventId \in DOMAIN creds THEN {creds[eventId]} ELSE {}

getSchema(cache, ref) ==
    IF ref \in DOMAIN cache THEN {cache[ref]} ELSE {}

(***************************************************************************)
(* crypto.ts: parseATag.                                                   *)
(***************************************************************************)
\* `pubkey.length !== 64`: the keys of the model are the well-formed ones
HasKeyLength(pubkey) == pubkey \in Pubkeys

parseATag(parts) ==
    IF Len(parts) < 3 THEN [ok |-> FALSE, kind |-> NaN, pubkey |-> "", dTag |-> <<>>]
    ELSE IF ParseKind(parts[1]) = NaN \/ ~HasKeyLength(parts[2])
    THEN [ok |-> FALSE, kind |-> NaN, pubkey |-> "", dTag |-> <<>>]
    ELSE [ok |-> TRUE, kind |-> ParseKind(parts[1]), pubkey |-> parts[2],
          dTag |-> SubSeq(parts, 3, Len(parts))]

(***************************************************************************)
(* The verifier (class CredentialVerifier).  verify runs to completion     *)
(* without yielding; it is split into its head (VerifyBegin) and one step  *)
(* per verifyChain invocation (VerifyChainStep), and no other operation is *)
(* enabled while a verifyChain call is pending.                            *)
(***************************************************************************)
MaxChainDepth == 5

\* the kind a chain reference must name: `chainInfo.kind !== 30301`
ChainRefKind == 30301

NoEvent == BaseEvent("", "", 0, 0)

Idle ==
    [pc |-> "idle", event |-> NoEvent, now |-> 0, issuerPubkey |-> "",
     credentialIssuedAt |-> 0, credentialClassId |-> "", allowedIssuers |-> {},
     chainRef |-> NoParts, classes |-> <<>>, rootPubkey |-> "", depth |-> 0,
     lookups |-> 0, walked |-> <<>>]

NoReturn == [op |-> "none"]

\* no handleEvent call is waiting
NotHandling == [client |-> "", event |-> NoEvent]

\* a VerificationResult, with the call it answers and what the call read
Result(event, now, status, reason, n, lookups, walked) ==
    [op |-> "verify", event |-> event, now |-> now, status |-> status,
     reason |-> reason,
     chain_depth |-> IF status = "VALID" THEN n ELSE Null,
     expired_at |-> IF status = "EXPIRED" THEN n ELSE Null,
     revoked_at |-> IF status = "REVOKED" THEN n ELSE Null,
     lookups |-> lookups, walked |-> walked]

Invalid(event, now, reason, lookups, walked) ==
    Result(event, now, "INVALID", reason, Null, lookups, walked)

\* findCredentialEvent: `events[0] ?? null` of a query with limit 1; the set
\* of the events it may return, empty when it returns null
findCredentialEvent(pubkey, dTag) ==
    {s[1] : s \in queryEvents(events,
                    [Filter({}, {pubkey}, {EVENT_KINDS.CREDENTIAL_GRANT}, {dTag})
                        EXCEPT !.limit = 1],
                    clock) \ {<<>>}}

\* this.getSchema: the cached content through JSON.parse, null on failure
ParsedSchema(schemaRef) ==
    IF getSchema(schemas, schemaRef) = {} THEN [ok |-> FALSE, classes |-> <<>>]
    ELSE JSONParse(schemas[schemaRef].content)

\* a root test that does not look at the author
IssuedByAnyone(classDef, pubkey, rootPubkey) == "root" \in classDef.issued_by

\* `classDefinition.issued_by.includes('root')` and the author is the
\* pubkey of the schema address
IssuedByRoot(classDef, pubkey, rootPubkey) ==
    "root" \in classDef.issued_by /\ pubkey = rootPubkey

\* `effectiveExpiry !== null && effectiveExpiry < now`
IsExpired(effectiveExpiry, now) == effectiveExpiry # Null /\ effectiveExpiry < now

\* `credRow?.expires_at ?? expiresAt`
EffectiveExpiry(credRow, expiresAt) ==
    IF credRow # {} /\ (CHOOSE r \in credRow : TRUE).expires_at # Null
    THEN (CHOOSE r \in credRow : TRUE).expires_at
    ELSE expiresAt

\* `credRow?.revoked`
IsRevoked(credRow) == credRow # {} /\ (CHOOSE r \in credRow : TRUE).revoked # 0

\* verify up to its return or its call of verifyChain
VerifyCall(event, now) ==
    /\ LET credRow == getCredential(credentials, event.id)
           row == CHOOSE r \in credRow : TRUE
           issuedAt == ParseInt(event.issued)
           expiresAt == ParseExpires(event.expires)
           effectiveExpiry == EffectiveExpiry(credRow, expiresAt)
           schema == ParsedSchema(event.a)
           classDefinition == schema.classes[event.class]
           schemaInfo == parseATag(event.a)
           Return(r) == ret' = r /\ vc' = Idle
       IN  IF event.kind # EVENT_KINDS.CREDENTIAL_GRANT
           THEN Return(Invalid(event, now, "not a credential event", 0, <<>>))
           ELSE IF FalsyParts(event.a) \/ Falsy(event.class) \/ Falsy(event.issued)
           THEN Return(Invalid(event, now, "missing required tags", 0, <<>>))
           ELSE IF IsRevoked(credRow)
           THEN Return(Result(event, now, "REVOKED",
                    IF row.revoke_reason = Undefined THEN "unspecified"
                    ELSE row.revoke_reason,
                    IF row.revoked_at = Null THEN now ELSE row.revoked_at,
                    0, <<>>))
           ELSE IF IsExpired(effectiveExpiry, now)
           THEN Return(Result(event, now, "EXPIRED", "", effectiveExpiry, 0, <<>>))
           ELSE IF ~schema.ok
           THEN Return(Invalid(event, now, "schema not found", 0, <<>>))
           ELSE IF event.class \notin DOMAIN schema.classes
           THEN Return(Invalid(event, now, "credential class not found in schema",
                               0, <<>>))
           ELSE IF ~schemaInfo.ok
           THEN Return(Invalid(event, now, "invalid schema reference", 0, <<>>))
           ELSE IF IssuedByRoot(classDefinition, event.pubkey, schemaInfo.pubkey)
           THEN Return(Result(event, now, "VALID", "", 0, 0, <<>>))
           ELSE IF FalsyParts(event.chain)
           THEN Return(Invalid(event, now,
                    "non-root issuer without chain reference", 0, <<>>))
           ELSE /\ ret' = NoReturn
                /\ vc' = [pc |-> "chain", event |-> event, now |-> now,
                          issuerPubkey |-> event.pubkey,
                          credentialIssuedAt |-> issuedAt,
                          credentialClassId |-> event.class,
                          allowedIssuers |-> classDefinition.issued_by,
                          chainRef |-> event.chain,
                          classes |-> schema.classes,
                          rootPubkey |-> schemaInfo.pubkey,
                          depth |-> 1, lookups |-> 0, walked |-> <<>>]

\* verify called on its own
VerifyBegin(event, now) ==
    /\ vc.pc = "idle" /\ ret.op \in {"none", "saveEvent"}
    /\ UNCHANGED <<events, credentials, schemas, clock, saved, addressed,
                   subscriptions, handling>>
    /\ VerifyCall(event, now)

\* a depth test that lets one more level through
ChainTooDeepAtSeven(depth) == depth > MaxChainDepth + 1

\* a depth test that lets two more levels through
ChainTooDeepAtEight(depth) == depth > MaxChainDepth + 2

\* `depth > 5`
ChainTooDeep(depth) == depth > MaxChainDepth

\* `issuerCredentialRecipient !== issuerPubkey`
RecipientMismatch(upstream, issuerPubkey) == upstream.p # issuerPubkey

\* `!allowedIssuers.includes(issuerClassId)`
NotAuthorized(allowedIssuers, issuerClassId) == issuerClassId \notin allowedIssuers

\* `!issuerClassDef.scope.includes(credentialClassId)`
LacksScope(issuerClassDef, credentialClassId) ==
    credentialClassId \notin issuerClassDef.scope

\* `issuerIssuedAt > credentialIssuedAt`
IssuedAfter(issuerIssuedAt, credentialIssuedAt) ==
    NumGt(issuerIssuedAt, credentialIssuedAt)

\* `issuerExpiresAt !== null && issuerExpiresAt < credentialIssuedAt`
ExpiredAtIssuance(issuerExpiresAt, credentialIssuedAt) ==
    issuerExpiresAt # Null /\ NumLt(issuerExpiresAt, credentialIssuedAt)

\* a cascade test that does not compare the time of the revocation
CascadeAnyTime(credRow, issuerClassDef, credentialIssuedAt) ==
    IsRevoked(credRow) /\ issuerClassDef.cascade_revoke

\* `issuerCredRow?.revoked` and then `issuerClassDef2?.cascade_revoke &&
\* issuerCredRow.revoked_at && issuerCredRow.revoked_at <= credentialIssuedAt`
CascadeRevoked(credRow, issuerClassDef, credentialIssuedAt) ==
    /\ IsRevoked(credRow)
    /\ issuerClassDef.cascade_revoke
    /\ LET at == (CHOOSE r \in credRow : TRUE).revoked_at
       IN  at # Null /\ at # 0 /\ NumLe(at, credentialIssuedAt)

\* the reasons verifyChain builds from the two class ids
ReasonNotAuthorized == "issuer class '<X>' not authorized to issue '<Y>'"
ReasonLacksScope == "issuer class '<X>' lacks scope to issue '<Y>'"

\* a recursive call that passes `depth` on as it is
SameDepthFrame(f, upstream) ==
    [f EXCEPT !.issuerPubkey = upstream.pubkey,
              !.credentialIssuedAt = ParseInt(upstream.issued),
              !.credentialClassId = upstream.class,
              !.allowedIssuers = f.classes[upstream.class].issued_by,
              !.chainRef = upstream.chain]

\* a recursive call that passes `depth` on but keeps the count and the list
FlatFrame(f, upstream) ==
    [f EXCEPT !.issuerPubkey = upstream.pubkey,
              !.credentialIssuedAt = ParseInt(upstream.issued),
              !.credentialClassId = upstream.class,
              !.allowedIssuers = f.classes[upstream.class].issued_by,
              !.chainRef = upstream.chain,
              !.lookups = f.lookups + 1,
              !.walked = Append(f.walked, upstream)]

\* the arguments of the recursive call `return this.verifyChain(...,
\* depth + 1)`, with the count and the list of the grants looked up so far
NextFrame(f, upstream) ==
    [f EXCEPT !.issuerPubkey = upstream.pubkey,
              !.credentialIssuedAt = ParseInt(upstream.issued),
              !.credentialClassId = upstream.class,
              !.allowedIssuers = f.classes[upstream.class].issued_by,
              !.chainRef = upstream.chain,
              !.depth = f.depth + 1,
              !.lookups = f.lookups + 1,
              !.walked = Append(f.walked, upstream)]

\* one invocation of verifyChain, after its findCredentialEvent returned
\* `upstream`: the result it returns, or the frame of its recursive call
ChainLink(f, upstream) ==
    LET issuerClassId == upstream.class
        issuerClassDef == f.classes[issuerClassId]
        issuerIssuedAt == ParseInt(upstream.issued)
        issuerExpiresAt == ParseExpires(upstream.expires)
        lookups == f.lookups + 1
        walked == Append(f.walked, upstream)
        Return(r) == ret' = r /\ vc' = Idle
        Fail(reason) == Return(Invalid(f.event, f.now, reason, lookups, walked))
    IN  IF RecipientMismatch(upstream, f.issuerPubkey)
        THEN Fail("chain pubkey mismatch")
        ELSE IF Falsy(issuerClassId)
        THEN Fail("issuer credential missing class")
        ELSE IF NotAuthorized(f.allowedIssuers, issuerClassId)
        THEN Fail(ReasonNotAuthorized)
        ELSE IF issuerClassId \notin DOMAIN f.classes
        THEN Fail("issuer class not found in schema")
        ELSE IF LacksScope(issuerClassDef, f.credentialClassId)
        THEN Fail(ReasonLacksScope)
        ELSE IF Falsy(upstream.issued)
        THEN Fail("issuer credential missing issued timestamp")
        ELSE IF IssuedAfter(issuerIssuedAt, f.credentialIssuedAt)
        THEN Fail("issuer credential issued after downstream credential")
        ELSE IF ExpiredAtIssuance(issuerExpiresAt, f.credentialIssuedAt)
        THEN Fail("issuer credential was expired at issuance time")
        ELSE IF CascadeRevoked(getCredential(credentials, upstream.id),
                               issuerClassDef, f.credentialIssuedAt)
        THEN Fail("issuer credential was revoked (cascade)")
        ELSE IF IssuedByRoot(issuerClassDef, upstream.pubkey, f.rootPubkey)
        THEN Return(Result(f.event, f.now, "VALID", "", f.depth, lookups, walked))
        ELSE IF FalsyParts(upstream.chain)
        THEN Fail("broken chain - non-root issuer without chain reference")
        ELSE /\ ret' = NoReturn
             /\ vc' = NextFrame(f, upstream)

\* one invocation of verifyChain
VerifyChainStep ==
    /\ vc.pc = "chain"
    /\ UNCHANGED <<events, credentials, schemas, clock, saved, addressed, subscriptions, handling>>
    /\ LET chainInfo == parseATag(vc.chainRef)
           found == findCredentialEvent(chainInfo.pubkey, chainInfo.dTag)
           Return(r) == ret' = r /\ vc' = Idle
       IN  IF ChainTooDeep(vc.depth)
           THEN Return(Invalid(vc.event, vc.now, "chain too deep (max 5)",
                               vc.lookups, vc.walked))
           ELSE IF ~chainInfo.ok \/ chainInfo.kind # ChainRefKind
           THEN Return(Invalid(vc.event, vc.now, "invalid chain reference",
                               vc.lookups, vc.walked))
           ELSE IF found = {}
           THEN Return(Invalid(vc.event, vc.now, "issuer credential not found",
                               vc.lookups + 1, vc.walked))
           ELSE \E upstream \in found : ChainLink(vc, upstream)

(***************************************************************************)
(* The admission validators.  A result says whether the call returned      *)
(* valid, with what reason it refused, or that it threw.                   *)
(***************************************************************************)
Outcome(valid, reason, threw) ==
    [valid |-> valid, reason |-> reason, threw |-> threw]

\* crypto.ts validateEvent; an id of the model is the hash of its event, so
\* the id comparison never fails
validateEvent(event) ==
    IF \A i \in 1..Len(IdOrder) : IdOrder[i] # event.id
    THEN Outcome(FALSE, <<"invalid id">>, FALSE)
    ELSE IF ~HasKeyLength(event.pubkey) THEN Outcome(FALSE, <<"invalid pubkey">>, FALSE)
    ELSE IF event.sig = "" THEN Outcome(FALSE, <<"invalid sig">>, FALSE)
    ELSE IF event.created_at < 0 THEN Outcome(FALSE, <<"invalid created_at">>, FALSE)
    ELSE IF event.kind < 0 THEN Outcome(FALSE, <<"invalid kind">>, FALSE)
    ELSE IF event.sig # "signed" THEN Outcome(FALSE, <<"invalid signature">>, FALSE)
    ELSE Outcome(TRUE, <<>>, FALSE)

\* `max_days * 86400`
SecondsPerDay == 86400

\* a validity test that lets every numeric expiry through
WithinAnyDays(expiresAt, issuedAt, max_days) == TRUE

\* `expiresAt > maxExpiry` is false, maxExpiry being
\* `issuedAt + (classDef.expiry.max_days * 86400)`
WithinMaxDays(expiresAt, issuedAt, max_days) ==
    ~(expiresAt > issuedAt + max_days * SecondsPerDay)

validateCredentialGrant(event) ==
    LET schema == ParsedSchema(event.a)
        \* `schema.classes[classId]` when truthy: the class, or an inherited
        \* function, which has none of the members of a class
        classDef == IF event.class \in DOMAIN schema.classes
                    THEN schema.classes[event.class]
                    ELSE [ClassDef({}, {}, Null, FALSE, FALSE)
                             EXCEPT !.missing = {"expiry"}]
        expiresAt == ParseInt(event.expires)
        issuedAt == ParseInt(event.issued)
    IN  IF FalsyParts(event.a) THEN Outcome(FALSE, <<"missing schema reference (a tag)">>, FALSE)
        ELSE IF Falsy(event.class) THEN Outcome(FALSE, <<"missing class tag">>, FALSE)
        ELSE IF Falsy(event.p) THEN Outcome(FALSE, <<"missing recipient (p tag)">>, FALSE)
        ELSE IF Falsy(event.issued) THEN Outcome(FALSE, <<"missing issued tag">>, FALSE)
        ELSE IF Falsy(event.expires) THEN Outcome(FALSE, <<"missing expires tag">>, FALSE)
        ELSE IF FalsyParts(event.d) THEN Outcome(FALSE, <<"missing d tag">>, FALSE)
        ELSE IF ~schema.ok THEN Outcome(FALSE, <<"schema not found">>, FALSE)
        ELSE IF ~HasMember(schema.classes, event.class)
        THEN Outcome(FALSE, <<"class not found in schema", event.class>>, FALSE)
        ELSE IF event.expires # "perpetual"
        THEN IF expiresAt = NaN THEN Outcome(FALSE, <<"invalid expires timestamp">>, FALSE)
             ELSE IF issuedAt = NaN THEN Outcome(FALSE, <<"invalid issued timestamp">>, FALSE)
             ELSE IF "expiry" \in classDef.missing THEN Outcome(FALSE, <<"TypeError">>, TRUE)
             ELSE IF /\ classDef.max_days # Null
                     /\ ~WithinMaxDays(expiresAt, issuedAt, classDef.max_days)
             THEN Outcome(FALSE, <<"expires exceeds max_days">>, FALSE)
             ELSE Outcome(TRUE, <<>>, FALSE)
        ELSE IF "expiry" \in classDef.missing THEN Outcome(FALSE, <<"TypeError">>, TRUE)
        ELSE IF classDef.max_days # Null
        THEN Outcome(FALSE, <<"perpetual not allowed for this class">>, FALSE)
        ELSE Outcome(TRUE, <<>>, FALSE)

\* the reasons validateSchema can refuse one class with: the first check of
\* the loop body that fails
ClassRefusals(classes, classId) ==
    LET classDef == classes[classId]
        Lacks(member) == member \in classDef.missing
        unknownScope == {x \in classDef.scope : ~HasMember(classes, x)}
        unknownIssuers == {x \in classDef.issued_by :
                              x # "root" /\ ~HasMember(classes, x)}
    IN  IF Lacks("name") THEN {<<"missing name", classId>>}
        ELSE IF Lacks("scope") THEN {<<"missing scope array", classId>>}
        ELSE IF Lacks("issued_by") THEN {<<"missing issued_by array", classId>>}
        ELSE IF Lacks("expiry") THEN {<<"missing expiry config", classId>>}
        ELSE IF Lacks("cascade_revoke") THEN {<<"missing cascade_revoke", classId>>}
        ELSE IF unknownScope # {}
        THEN {<<"scope references unknown class", classId, x>> : x \in unknownScope}
        ELSE {<<"issued_by references unknown class", classId, x>> :
                 x \in unknownIssuers}

\* validateSchema: the results it can return.  The entries of `classes` and
\* the members of an array are visited in the order of the JSON text, which
\* the sets of the model do not keep: any class that fails a check can be
\* the first one visited.
validateSchema(event) ==
    LET \* every document of the model has a `classes` object
        schema == JSONParse(event.content)
        refusals == UNION {ClassRefusals(schema.classes, c) :
                              c \in DOMAIN schema.classes}
    IN  IF FalsyParts(event.d) THEN {Outcome(FALSE, <<"missing d tag">>, FALSE)}
        ELSE IF Falsy(event.name) THEN {Outcome(FALSE, <<"missing name tag">>, FALSE)}
        ELSE IF ~schema.ok THEN {Outcome(FALSE, <<"invalid JSON content">>, FALSE)}
        ELSE IF refusals = {} THEN {Outcome(TRUE, <<>>, FALSE)}
        ELSE {Outcome(FALSE, r, FALSE) : r \in refusals}

(***************************************************************************)
(* The store's operations as actions.  queryEvents and verify change no    *)
(* table, so a run is followed up to the first value one of them returns:  *)
(* every store content is reached by saveEvent calls alone, and every read *)
(* of it is made from there.                                               *)
(***************************************************************************)
\* the composite addresses "<grant kind>:<author>:<d>" of a grant, the kind
\* written as EVENT_KINDS has it or as the store's reference check has it
AddressesOf(grant) ==
    {<<k, grant.pubkey>> \o grant.d : k \in {"30101", "30301"}}

\* a revocation or renewal whose `a` tag is the composite address of the grant
NamesGrant(event, grant) ==
    /\ event.kind \in {EVENT_KINDS.CREDENTIAL_REVOCATION,
                       EVENT_KINDS.CREDENTIAL_RENEWAL}
    /\ grant.kind = EVENT_KINDS.CREDENTIAL_GRANT
    /\ event.a \in AddressesOf(grant)

Ready == vc.pc = "idle" /\ ret.op \in {"none", "saveEvent"}

SaveEvent(event) ==
    /\ Ready
    /\ LET r == saveEvent(events, credentials, schemas, event)
       IN  /\ events' = r.events
           /\ credentials' = r.credentials
           /\ schemas' = r.schemas
           /\ ret' = [op |-> "saveEvent", event |-> event, ok |-> r.ok]
    /\ saved' = saved \cup {event}
    /\ addressed' = addressed \cup
          {<<g.id, event.id>> : g \in {x \in events : NamesGrant(event, x)}}
    /\ UNCHANGED <<clock, vc, subscriptions, handling>>

QueryEvents(filter) ==
    /\ Ready
    /\ \E rows \in queryEvents(events, filter, clock) :
          ret' = [op |-> "queryEvents", filter |-> filter, rows |-> rows]
    /\ UNCHANGED <<events, credentials, schemas, clock, vc, saved, addressed, subscriptions, handling>>

GetSchema(ref) ==
    /\ Ready
    /\ ret' = [op |-> "getSchema", ref |-> ref, row |-> getSchema(schemas, ref)]
    /\ UNCHANGED <<events, credentials, schemas, clock, vc, saved, addressed, subscriptions, handling>>

\* wall time passes between operations; the value returned by the last
\* operation is dropped, it described the state before
Tick ==
    /\ Ready
    /\ clock < MaxClock
    /\ clock' = clock + 1
    /\ ret' = NoReturn
    /\ UNCHANGED <<events, credentials, schemas, vc, saved, addressed, subscriptions, handling>>

(***************************************************************************)
(* The relay (class DojoRelay).  A message is handled to its end before    *)
(* the next one is read; the messages the handler sent are returned in     *)
(* ret.sent, in the order of the send calls.  A run is followed up to the  *)
(* first message that leaves the tables and the subscriptions as they      *)
(* were: every state of the relay is reached by the messages that change   *)
(* it, and every message is handled from there.                            *)
(***************************************************************************)
\* the relay reads the next message
RelayReady ==
    /\ vc.pc = "idle"
    /\ handling = NotHandling
    /\ ret.op = "none"
       \/ (ret.op \in {"EVENT", "REQ", "CLOSE", "DISCONNECT"} /\ ret.changed)

\* this.clients, in the order the connections were made
ClientOrder == <<"c1", "c2">>

Message(client, msg) == [to |-> client, msg |-> msg]

\* matchesFilter of relay.ts
matchesFilter(event, filter) ==
    /\ filter.ids = {} \/ event.id \in filter.ids
    /\ filter.authors = {} \/ event.pubkey \in filter.authors
    /\ filter.kinds = {} \/ event.kind \in filter.kinds
    /\ filter.since = Null \/ ~(event.created_at < filter.since)
    /\ filter.until = Null \/ ~(event.created_at > filter.until)
    /\ filter.a = {} \/ (~FalsyParts(event.a) /\ event.a \in filter.a)
    /\ filter.d = {} \/ (~FalsyParts(event.d) /\ event.d \in filter.d)

matchesFilters(event, filters) ==
    \E i \in 1..Len(filters) : matchesFilter(event, filters[i])

\* the inner loop of broadcast: the first subscription of the client, in the
\* order of its Map, whose filters match
RECURSIVE FirstMatching(_, _)
FirstMatching(event, subs) ==
    IF subs = <<>> THEN <<>>
    ELSE IF matchesFilters(event, Head(subs).filters) THEN <<Head(subs)>>
    ELSE FirstMatching(event, Tail(subs))

RECURSIVE broadcast(_, _)
broadcast(event, clients) ==
    IF clients = <<>> THEN <<>>
    ELSE LET client == Head(clients)
             first == FirstMatching(event, subscriptions[client])
         IN  (IF first = <<>> THEN <<>>
              ELSE <<Message(client, [type |-> "EVENT", sub |-> first[1].id,
                                      event |-> event])>>)
             \o broadcast(event, Tail(clients))

\* Map.set: a key that is present keeps its place
RECURSIVE MapSet(_, _)
MapSet(subs, sub) ==
    IF subs = <<>> THEN <<sub>>
    ELSE IF Head(subs).id = sub.id THEN <<sub>> \o Tail(subs)
    ELSE <<Head(subs)>> \o MapSet(Tail(subs), sub)

\* a Map.delete that deletes nothing
MapKeep(subs, id) == subs

RECURSIVE MapDelete(_, _)
MapDelete(subs, id) ==
    IF subs = <<>> THEN <<>>
    ELSE IF Head(subs).id = id THEN Tail(subs)
    ELSE <<Head(subs)>> \o MapDelete(Tail(subs), id)

\* a loop that sends every result of every filter
RECURSIVE SendEach(_, _, _, _)
SendEach(client, subId, results, seen) ==
    IF results = <<>> THEN <<>>
    ELSE <<Message(client, [type |-> "EVENT", sub |-> subId,
                            event |-> Head(results)])>>
         \o SendEach(client, subId, Tail(results), seen)

\* the loop of handleReq over one filter's results: an event whose id is
\* in `seen` is skipped
RECURSIVE SendNew(_, _, _, _)
SendNew(client, subId, results, seen) ==
    IF results = <<>> THEN <<>>
    ELSE IF Head(results).id \in seen
    THEN SendNew(client, subId, Tail(results), seen)
    ELSE <<Message(client, [type |-> "EVENT", sub |-> subId,
                            event |-> Head(results)])>>
         \o SendNew(client, subId, Tail(results), seen \cup {Head(results).id})

\* the outer loop of handleReq: the messages it can send for the filters,
\* one sequence for each order the queries can return their rows in
RECURSIVE ReqSends(_, _, _, _)
ReqSends(client, subId, filters, seen) ==
    IF filters = <<>> THEN {<<>>}
    ELSE UNION {
           LET sends == SendNew(client, subId, results, seen)
               ids == {sends[i].msg.event.id : i \in 1..Len(sends)}
           IN  {sends \o rest :
                  rest \in ReqSends(client, subId, Tail(filters), seen \cup ids)}
           : results \in queryEvents(events, Head(filters), clock)}

\* a refusal that leaves the refused event in the events table
ReplyStoring(client, event, sent) ==
    /\ ret' = [op |-> "EVENT", client |-> client, event |-> event,
               sent |-> sent, changed |-> FALSE]
    /\ handling' = NotHandling
    /\ events' = events \cup {event}
    /\ UNCHANGED <<credentials, schemas, clock, vc, saved, addressed,
                   subscriptions>>

\* handleEvent returns without touching the store
Reply(client, event, sent) ==
    /\ ret' = [op |-> "EVENT", client |-> client, event |-> event,
               sent |-> sent, changed |-> FALSE]
    /\ handling' = NotHandling
    /\ UNCHANGED <<events, credentials, schemas, clock, vc, saved, addressed,
                   subscriptions>>

\* DELETE FROM events WHERE id = ?
deleteEventAnyAuthor(rows, id, pubkey) == {x \in rows : x.id # id}

\* DELETE FROM events WHERE id = ? AND pubkey = ?
deleteEvent(rows, id, pubkey) == {x \in rows : ~(x.id = id /\ x.pubkey = pubkey)}

\* the end of handleEvent: NIP-09 deletion, saveEvent, OK and broadcast
Admit(client, event) ==
    LET \* deleteEvent for each `e` tag of a kind 5 event
        rows == IF event.kind = EVENT_KINDS.DELETE
                THEN {x \in events :
                        \A id \in event.e : x \in deleteEvent(events, id, event.pubkey)}
                ELSE events
        r == saveEvent(rows, CascadeDelete(credentials, rows), schemas, event)
    IN  /\ events' = r.events
        /\ credentials' = r.credentials
        /\ schemas' = r.schemas
        /\ saved' = saved \cup {event}
        /\ addressed' = addressed \cup
              {<<g.id, event.id>> : g \in {x \in rows : NamesGrant(event, x)}}
        /\ ret' = [op |-> "EVENT", client |-> client, event |-> event,
                   sent |-> <<Message(client,
                                [type |-> "OK", id |-> event.id, accepted |-> r.ok,
                                 message |-> IF r.ok THEN <<>>
                                             ELSE <<"error: could not save event">>])>>
                            \o IF r.ok
                               THEN broadcast(event,
                                      SelectSeq(ClientOrder,
                                        LAMBDA c : c \in DOMAIN subscriptions))
                               ELSE <<>>,
                   changed |-> \/ r.events # events
                               \/ r.credentials # credentials
                               \/ r.schemas # schemas]
        /\ handling' = NotHandling
        /\ UNCHANGED <<clock, vc, subscriptions>>

\* handleEvent up to its call of verify, or to its end when it does not
\* call verify; an exception reaches the catch of the message handler
HandleEvent(client, event) ==
    /\ RelayReady
    /\ LET validation == validateEvent(event)
           credValidation == validateCredentialGrant(event)
           Refuse(v) == Reply(client, event,
                           <<Message(client,
                                [type |-> "OK", id |-> event.id, accepted |-> FALSE,
                                 message |-> <<"invalid">> \o v.reason])>>)
       IN  IF ~validation.valid THEN Refuse(validation)
           ELSE IF /\ event.kind = EVENT_KINDS.CREDENTIAL_SCHEMA
                   /\ \E v \in validateSchema(event) : ~v.valid
           THEN \E v \in validateSchema(event) : ~v.valid /\ Refuse(v)
           ELSE IF event.kind = EVENT_KINDS.CREDENTIAL_GRANT
           THEN IF credValidation.threw
                THEN Reply(client, event,
                           <<Message(client, [type |-> "NOTICE",
                                              message |-> "Invalid JSON"])>>)
                ELSE IF ~credValidation.valid THEN Refuse(credValidation)
                ELSE /\ handling' = [client |-> client, event |-> event]
                     /\ VerifyCall(event, clock)
                     /\ UNCHANGED <<events, credentials, schemas, clock, saved,
                                    addressed, subscriptions>>
           ELSE Admit(client, event)

\* handleEvent from the return of verify
HandleEventVerified ==
    /\ handling # NotHandling
    /\ vc.pc = "idle"
    /\ ret.op = "verify"
    /\ IF ret.status # "VALID"
       THEN Reply(handling.client, handling.event,
                  <<Message(handling.client,
                       [type |-> "OK", id |-> handling.event.id,
                        accepted |-> FALSE,
                        message |-> <<"invalid", "credential verification failed",
                                      ret.status>>])>>)
       ELSE Admit(handling.client, handling.event)

HandleReq(client, subId, filters) ==
    /\ RelayReady
    /\ subscriptions' = [subscriptions EXCEPT ![client] =
                            MapSet(@, [id |-> subId, filters |-> filters])]
    /\ \E sends \in ReqSends(client, subId, filters, {}) :
          ret' = [op |-> "REQ", client |-> client, sub |-> subId,
                  filters |-> filters,
                  sent |-> sends \o <<Message(client, [type |-> "EOSE",
                                                       sub |-> subId])>>,
                  changed |-> subscriptions' # subscriptions]
    /\ UNCHANGED <<events, credentials, schemas, clock, vc, saved, addressed,
                   handling>>

HandleClose(client, subId) ==
    /\ RelayReady
    /\ subscriptions' = [subscriptions EXCEPT ![client] = MapDelete(@, subId)]
    /\ ret' = [op |-> "CLOSE", client |-> client, sub |-> subId,
               sent |-> <<Message(client, [type |-> "CLOSED", sub |-> subId])>>,
               changed |-> subscriptions' # subscriptions]
    /\ UNCHANGED <<events, credentials, schemas, clock, vc, saved, addressed,
                   handling>>

\* the 'close' handler of a connection: this.clients.delete(client)
Disconnect(client) ==
    /\ RelayReady
    /\ client \in DOMAIN subscriptions
    /\ subscriptions' = [c \in DOMAIN subscriptions \ {client} |-> subscriptions[c]]
    /\ ret' = [op |-> "DISCONNECT", client |-> client, sent |-> <<>>,
               changed |-> TRUE]
    /\ UNCHANGED <<events, credentials, schemas, clock, vc, saved, addressed,
                   handling>>

(***************************************************************************)
(* The events of the training scenario.  The store caches a schema under   *)
(* "30300:<author>:<d>" and requires "30301" in chain, revocation and      *)
(* renewal references, whatever the kinds of the events themselves.        *)
(***************************************************************************)
S1 == <<"30300", "R", "s1">>
S2 == <<"30300", "R", "s2">>
DirRef == <<"30301", "R", "dir">>

sch1 == SchemaEvent("e01", "R", 1, <<"s1">>, "training")
sch2 == SchemaEvent("e02", "R", 1, <<"s2">>, "training")
\* R appoints A director, issued 1, expires 3
gDir == GrantEvent("e03", "R", 1, <<"dir">>, "A", S1, "director", "1", "3", NoParts)
\* a later version of the same grant whose expires tag is "0"
gDirZero == GrantEvent("e04", "R", 2, <<"dir">>, "A", S1, "director", "1", "0", NoParts)
\* A appoints B instructor while A's grant runs
gIns == GrantEvent("e05", "A", 2, <<"ins">>, "B", S1, "instructor", "2", "4", DirRef)
\* A appoints B instructor after A's grant has run out
gLate == GrantEvent("e06", "A", 4, <<"late">>, "B", S1, "instructor", "4", "5", DirRef)
\* A appoints B instructor under schema s2, citing the grant held under s1
gCross == GrantEvent("e07", "A", 2, <<"x">>, "B", S2, "instructor", "2", "4", DirRef)
\* B admits M as trainee
gTra == GrantEvent("e08", "B", 3, <<"tra">>, "M", S1, "trainee", "3", "4",
                   <<"30301", "A", "ins">>)
\* M, a trainee, admits B as trainee
gBad == GrantEvent("e09", "M", 3, <<"bad">>, "B", S1, "trainee", "3", "4",
                   <<"30301", "B", "tra">>)
\* R revokes gDir by its composite address
rvAddr == RevocationEvent("e10", "R", 3, DirRef, "misconduct")
\* M names gDir's event id in the third segment
rvId == RevocationEvent("e11", "M", 3, <<"30301", "R", "e03">>, "spite")
\* R renews gDir, naming its event id
rnw == RenewalEvent("e12", "R", 3, <<"30301", "R", "e03">>, "5")
\* three versions of A's metadata, two of them of the same second
meta1 == BaseEvent("e13", "A", 1, EVENT_KINDS.METADATA)
meta2 == BaseEvent("e14", "A", 2, EVENT_KINDS.METADATA)
meta3 == BaseEvent("e16", "A", 2, EVENT_KINDS.METADATA)
\* a note that expires at 1
note == [BaseEvent("e15", "B", 1, EVENT_KINDS.TEXT_NOTE) EXCEPT !.expiration = "1"]

TrainingEvents ==
    {sch1, sch2, gDir, gDirZero, gIns, gLate, gCross, gTra, gBad,
     rvAddr, rvId, rnw, meta1, meta2, meta3, note}

(***************************************************************************)
(* The events of the mesh scenario: R appoints A, and A signs grants to    *)
(* itself, each citing the one before, and grants that cite themselves or  *)
(* each other.                                                             *)
(***************************************************************************)
MS == <<"30300", "R", "mesh">>

MeshGrant(id, pubkey, d, chain) ==
    GrantEvent(id, pubkey, 1, d, "A", MS, "peer", "1", "perpetual", chain)

schMesh == SchemaEvent("k00", "R", 1, <<"mesh">>, "mesh")
c0 == MeshGrant("k01", "R", <<"c0">>, NoParts)
c1 == MeshGrant("k02", "A", <<"c1">>, <<"30301", "R", "c0">>)
c2 == MeshGrant("k03", "A", <<"c2">>, <<"30301", "A", "c1">>)
c3 == MeshGrant("k04", "A", <<"c3">>, <<"30301", "A", "c2">>)
c4 == MeshGrant("k05", "A", <<"c4">>, <<"30301", "A", "c3">>)
c5 == MeshGrant("k06", "A", <<"c5">>, <<"30301", "A", "c4">>)
c6 == MeshGrant("k07", "A", <<"c6">>, <<"30301", "A", "c5">>)
loop == MeshGrant("k08", "A", <<"loop">>, <<"30301", "A", "loop">>)
ping == MeshGrant("k09", "A", <<"ping">>, <<"30301", "A", "pong">>)
pong == MeshGrant("k10", "A", <<"pong">>, <<"30301", "A", "ping">>)

MeshEvents == {schMesh, c0, c1, c2, c3, c4, c5, c6, loop, ping, pong}

(***************************************************************************)
(* The events of the lifecycle scenario: R appoints A director and warden, *)
(* A appoints B instructor under each, and R revokes and renews its grants *)
(* naming them by event id (m01, m02, m14) or by composite address.        *)
(***************************************************************************)
LS == <<"30300", "R", "life">>

schLife == SchemaEvent("m00", "R", 1, <<"life">>, "lifecycle")
dirL == GrantEvent("m01", "R", 1, <<"dir">>, "A", LS, "director", "1", "4", NoParts)
warL == GrantEvent("m02", "R", 1, <<"war">>, "A", LS, "warden", "1", "4", NoParts)
insD == GrantEvent("m03", "A", 3, <<"viaD">>, "B", LS, "instructor", "3",
                   "perpetual", <<"30301", "R", "dir">>)
insW == GrantEvent("m04", "A", 3, <<"viaW">>, "B", LS, "instructor", "3",
                   "perpetual", <<"30301", "R", "war">>)
\* revocations of the director grant before and after insD was issued
rvEarlyD == RevocationEvent("m05", "R", 2, <<"30301", "R", "m01">>, "early")
rvLateD == RevocationEvent("m06", "R", 4, <<"30301", "R", "m01">>, "late")
\* the same for the warden grant
rvEarlyW == RevocationEvent("m07", "R", 2, <<"30301", "R", "m02">>, "early")
rvLateW == RevocationEvent("m08", "R", 4, <<"30301", "R", "m02">>, "late")
\* a revocation of the director grant dated at the epoch
rvZero == RevocationEvent("m09", "R", 0, <<"30301", "R", "m01">>, "epoch")
\* renewals of the director grant, by address and by event id
rnAddr == RenewalEvent("m10", "R", 3, <<"30301", "R", "dir">>, "6")
rnNew == RenewalEvent("m11", "R", 3, <<"30301", "R", "m01">>, "6")
rnOld == RenewalEvent("m12", "R", 2, <<"30301", "R", "m01">>, "5")
\* a renewal of the warden grant, whose class is not renewable
rnWar == RenewalEvent("m13", "R", 3, <<"30301", "R", "m02">>, "6")
\* a badge of zero days and its renewal to 6
badge == GrantEvent("m14", "R", 1, <<"bdg">>, "B", LS, "badge", "1", "1", NoParts)
rnBadge == RenewalEvent("m15", "R", 2, <<"30301", "R", "m14">>, "6")
\* M, holding nothing, signs a director grant without a chain tag
fake == GrantEvent("m16", "M", 1, <<"fake">>, "B", LS, "director", "1", "4", NoParts)

LifecycleEvents ==
    {schLife, dirL, warL, insD, insW, rvEarlyD, rvLateD, rvEarlyW, rvLateW,
     rvZero, rnAddr, rnNew, rnOld, rnWar, badge, rnBadge, fake}

(***************************************************************************)
(* The events of the store scenario: two versions of one schema address,   *)
(* two events of one address and one second, and a grant followed by a     *)
(* version of it whose issued tag is no number, and three events with an   *)
(* expiration tag: two numbers and a word, and a revocation whose          *)
(* reference has a colon after its third segment.                          *)
(***************************************************************************)
schOld == SchemaEvent("n01", "R", 1, <<"s">>, "mesh")
schNew == SchemaEvent("n02", "R", 2, <<"s">>, "training")
tieLow == [BaseEvent("n03", "A", 1, 30000) EXCEPT !.d = <<"x">>]
tieHigh == [BaseEvent("n04", "A", 1, 30000) EXCEPT !.d = <<"x">>]
dated == GrantEvent("n05", "R", 1, <<"g">>, "A", <<"30300", "R", "s">>,
                    "director", "1", "perpetual", NoParts)
undated == GrantEvent("n06", "R", 2, <<"g">>, "A", <<"30300", "R", "s">>,
                      "director", "soon", "perpetual", NoParts)

StoreEvents ==
    LET Expiring(id, d, expiration) ==
            [BaseEvent(id, "B", 1, 30000) EXCEPT !.d = <<d>>,
                                                 !.expiration = expiration]
    IN  {schOld, schNew, tieLow, tieHigh, dated, undated,
         Expiring("n07", "p", "0"), Expiring("n08", "q", "1"),
         Expiring("n09", "w", "soon"),
         RevocationEvent("n10", "R", 2, <<"30301", "R", "n05", "x">>, "tail")}

\* the schema addresses getSchema is asked for: the prefix the cache is keyed
\* by and the prefix EVENT_KINDS gives
SchemaRefs == {<<k, "R", "s">> : k \in {"30300", "30100"}}

(***************************************************************************)
(* The events of the relay scenario: schemas that pass and fail            *)
(* validateSchema, grants that pass and fail each admission step, a note   *)
(* and its deletion.                                                       *)
(***************************************************************************)
RelayEvents ==
    LET ref == <<"30300", "R", "s">>
        Grant(id, pubkey, d, class, issued, expires, chain) ==
            GrantEvent(id, pubkey, 1, <<d>>, IF pubkey = "A" THEN "B" ELSE "A",
                       ref, class, issued, expires, chain)
    IN  {\* schemas: one that passes validateSchema, two that name a class
         \* they do not have, one that names an inherited member
         SchemaEvent("r00", "R", 1, <<"s">>, "lifecycle"),
         SchemaEvent("r01", "R", 1, <<"t">>, "dangling"),
         SchemaEvent("r13", "R", 1, <<"v">>, "orphan"),
         SchemaEvent("r02", "R", 1, <<"u">>, "inherited"),
         \* a root grant, a grant chained to it, a grant by a stranger
         Grant("r03", "R", "dir", "director", "1", "perpetual", NoParts),
         Grant("r04", "A", "ins", "instructor", "1", "perpetual",
               <<"30301", "R", "dir">>),
         Grant("r05", "M", "dir", "director", "1", "perpetual", NoParts),
         \* an issued tag that is no number, a class id that is an inherited
         \* member, an expiry beyond max_days and one within
         Grant("r06", "R", "und", "director", "soon", "perpetual", NoParts),
         Grant("r07", "R", "pro", "constructor", "1", "perpetual", NoParts),
         Grant("r08", "R", "bdg", "badge", "1", "3", NoParts),
         Grant("r12", "R", "bdg", "badge", "1", "1", NoParts),
         \* a note with a signature that does not verify, a note, its deletion
         [BaseEvent("r09", "A", 1, EVENT_KINDS.TEXT_NOTE) EXCEPT !.sig = "forged"],
         BaseEvent("r10", "A", 1, EVENT_KINDS.TEXT_NOTE),
         [BaseEvent("r11", "A", 1, EVENT_KINDS.DELETE) EXCEPT !.e = {"r10"}]}

\* the events of the delivery scenario: a schema without a class, a note,
\* its deletion by its author, its deletion by somebody else, and a schema
\* with a root grant and the deletion of that grant
DeliveryEvents ==
    {SchemaEvent("r14", "R", 1, <<"s">>, "empty"),
     SchemaEvent("r00", "R", 1, <<"l">>, "lifecycle"),
     GrantEvent("r03", "R", 1, <<"dir">>, "A", <<"30300", "R", "l">>,
                "director", "1", "perpetual", NoParts),
     [BaseEvent("r16", "R", 1, EVENT_KINDS.DELETE) EXCEPT !.e = {"r03"}],
     BaseEvent("r10", "A", 1, EVENT_KINDS.TEXT_NOTE),
     [BaseEvent("r11", "A", 1, EVENT_KINDS.DELETE) EXCEPT !.e = {"r10"}],
     [BaseEvent("r15", "M", 1, EVENT_KINDS.DELETE) EXCEPT !.e = {"r10"}]}

(***************************************************************************)
(* Inputs of the operations.                                               *)
(***************************************************************************)
\* the `now` verify is called with
Nows == {1, 5}

\* the filter selecting one replaceable address
AddressFilter(e) ==
    Filter({}, {e.pubkey}, {e.kind},
           IF isParameterizedReplaceable(e.kind) THEN {e.d} ELSE {})

HasAddress(e) ==
    \/ isReplaceable(e.kind)
    \/ isParameterizedReplaceable(e.kind) /\ e.d # NoParts

AddressFilters(universe) == {AddressFilter(e) : e \in {x \in universe : HasAddress(x)}}

Init ==
    /\ events = {}
    /\ credentials = [id \in {} |-> NoReturn]
    /\ schemas = [ref \in {} |-> NoReturn]
    /\ clock = 0
    /\ vc = Idle
    /\ ret = NoReturn
    /\ saved = {}
    /\ addressed = {}
    /\ subscriptions = [c \in {"c1", "c2"} |-> <<>>]
    /\ handling = NotHandling

Next ==
    \/ \E e \in TrainingEvents :
          (e \in saved \/ Cardinality(saved) < MaxSaved) /\ SaveEvent(e)
    \/ \E f \in AddressFilters(TrainingEvents) : QueryEvents(f)
    \/ \E e \in TrainingEvents, now \in Nows : VerifyBegin(e, now)
    \/ VerifyChainStep
    \/ Tick

Spec == Init /\ [][Next]_vars

NextMesh ==
    \/ \E e \in MeshEvents : SaveEvent(e)
    \/ \E e \in MeshEvents : VerifyBegin(e, 1)
    \/ VerifyChainStep

SpecMesh == Init /\ [][NextMesh]_vars

NextLifecycle ==
    \/ \E e \in LifecycleEvents :
          (e \in saved \/ Cardinality(saved) < MaxSaved) /\ SaveEvent(e)
    \/ \E e \in LifecycleEvents, now \in Nows : VerifyBegin(e, now)
    \/ VerifyChainStep

SpecLifecycle == Init /\ [][NextLifecycle]_vars

NextStore ==
    \/ \E e \in StoreEvents : SaveEvent(e)
    \/ \E f \in AddressFilters(StoreEvents) : QueryEvents(f)
    \/ \E ref \in SchemaRefs : GetSchema(ref)
    \/ Tick

SpecStore == Init /\ [][NextStore]_vars

NextRelay ==
    LET clients == {ClientOrder[i] : i \in 1..Len(ClientOrder)}
        subIds == {"s1", "s2"}
        \* the filter lists of the REQ messages: two filters that share
        \* events, and no filter
        filterLists ==
            {<<Filter({}, {"A"}, {}, {}),
               Filter({}, {}, {EVENT_KINDS.TEXT_NOTE}, {})>>,
             <<>>}
        \* the subscriptions of all clients together
        subscribed ==
            UNION {{<<c, subscriptions[c][i].id>> :
                       i \in 1..Len(subscriptions[c])} : c \in clients}
    IN  \* the first connection publishes, both subscribe
        \/ \E e \in RelayEvents :
              /\ e \in saved \/ Cardinality(saved) < MaxAdmitted
              /\ HandleEvent(ClientOrder[1], e)
        \/ HandleEventVerified
        \/ VerifyChainStep
        \/ \E c \in clients, id \in subIds, fs \in filterLists :
              /\ <<c, id>> \in subscribed \/ Cardinality(subscribed) < MaxSubs
              /\ HandleReq(c, id, fs)
        \/ \E c \in clients, id \in subIds : HandleClose(c, id)
        \/ Tick

SpecRelay == Init /\ [][NextRelay]_vars

\* notes and deletions published and subscribed to by connections that close
NextDelivery ==
    LET clients == DOMAIN subscriptions
        subIds == {"s1", "s2"}
        \* the filter lists of the REQ messages: two filters that share the
        \* note, and a filter for another author
        filterLists ==
            {<<Filter({}, {"A"}, {}, {}),
               Filter({}, {}, {EVENT_KINDS.TEXT_NOTE}, {})>>,
             <<Filter({}, {"M"}, {}, {})>>}
        subscribed ==
            UNION {{<<c, subscriptions[c][i].id>> :
                       i \in 1..Len(subscriptions[c])} : c \in clients}
    IN  \* the first connection publishes while it is open
        \/ \E e \in DeliveryEvents :
              /\ ClientOrder[1] \in clients
              /\ e \in saved \/ Cardinality(saved) < MaxAdmitted
              /\ HandleEvent(ClientOrder[1], e)
        \/ HandleEventVerified
        \/ \E c \in clients, id \in subIds, fs \in filterLists :
              /\ <<c, id>> \in subscribed \/ Cardinality(subscribed) < MaxSubs
              /\ HandleReq(c, id, fs)
        \/ \E c \in clients, id \in subIds : HandleClose(c, id)
        \/ \E c \in clients : Disconnect(c)

SpecDelivery == Init /\ [][NextDelivery]_vars

\* verify is synchronous code: a pending verifyChain call always runs
FairSpecMesh == SpecMesh /\ WF_vars(VerifyChainStep)

(***************************************************************************)
(* Properties.                                                             *)
(***************************************************************************)
\* the events saved so far at the replaceable address a filter selects
SavedAt(filter) == {e \in saved : HasAddress(e) /\ AddressFilter(e) = filter}

\* e has the greatest (created_at, id) of a set of events
Greatest(e, set) == e \in set /\ \A x \in set : x = e \/ Older(x, e)

\* C1: after saveEvent has processed any sequence of events, queryEvents
\* returns at most one event for a replaceable address, and that event is the
\* one with the greatest (created_at, id) among those saved at the address.
C1_ReplaceableMonotonicity ==
    ret.op = "queryEvents" /\ SavedAt(ret.filter) # {} =>
        /\ Len(ret.rows) <= 1
        /\ \A i \in 1..Len(ret.rows) : Greatest(ret.rows[i], SavedAt(ret.filter))

\* C2: once the revoked flag of a grant's credential row is set, no later
\* saveEvent call resets it to not-revoked.
C2_RevocationMonotonic ==
    [][\A id \in DOMAIN credentials :
          credentials[id].revoked = 1 /\ id \in DOMAIN credentials'
              => credentials'[id].revoked = 1]_vars

\* C3: a stored grant whose composite address a saved revocation names
\* verifies as REVOKED, with the revocation's reason and created_at,
\* for every now.
C3_RevokedByAddress ==
    ret.op = "verify" /\ ret.event \in events =>
        \A rv \in saved :
            /\ rv.kind = EVENT_KINDS.CREDENTIAL_REVOCATION
            /\ <<ret.event.id, rv.id>> \in addressed
            =>  /\ ret.status = "REVOKED"
                /\ \E r \in saved :
                      /\ r.kind = EVENT_KINDS.CREDENTIAL_REVOCATION
                      /\ <<ret.event.id, r.id>> \in addressed
                      /\ ret.reason = r.reason
                      /\ ret.revoked_at = r.created_at

\* the authors of the grants on the chain a chain reference starts
RECURSIVE ChainIssuers(_, _)
ChainIssuers(chain, n) ==
    IF n = 0 \/ ~parseATag(chain).ok THEN {}
    ELSE {parseATag(chain).pubkey} \cup
         UNION {ChainIssuers(u.chain, n - 1) :
                u \in {x \in saved : /\ x.kind = EVENT_KINDS.CREDENTIAL_GRANT
                                     /\ x.pubkey = parseATag(chain).pubkey
                                     /\ x.d = parseATag(chain).dTag}}

\* the revocation authority of the NIP: the grant's issuer, an upstream
\* issuer of its chain, or the schema authority
MayRevoke(pubkey, grant) ==
    \/ pubkey = grant.pubkey
    \/ parseATag(grant.a).ok /\ pubkey = parseATag(grant.a).pubkey
    \/ pubkey \in ChainIssuers(grant.chain, MaxChainDepth)

\* a revocation that refers to the grant: by its composite address, or by
\* its event id in the third segment as the store resolves it
RefersTo(rv, grant) ==
    /\ rv.kind = EVENT_KINDS.CREDENTIAL_REVOCATION
    /\ \/ rv.a \in AddressesOf(grant)
       \/ Len(rv.a) >= 3 /\ rv.a[3] = grant.id

\* C4: verify returns REVOKED for a grant only if a revocation by an
\* authorized author (issuer, upstream issuer, root) referring to it was saved.
C4_OnlyAuthorizedRevocation ==
    ret.op = "verify" /\ ret.status = "REVOKED" =>
        \E rv \in saved : RefersTo(rv, ret.event) /\ MayRevoke(rv.pubkey, ret.event)

\* the grant immediately downstream of the i-th upstream grant a verify walked
Downstream(r, i) == IF i = 1 THEN r.event ELSE r.walked[i - 1]

\* a tag holding a decimal number
Numeric(s) == ParseInt(s) # NaN

\* the classes of the schema the verified grant cites
ClassesOf(grant) == ParsedSchema(grant.a).classes

\* U held an expiry that had passed when C was issued
ExpiredBefore(U, C) ==
    /\ Numeric(U.expires) /\ Numeric(C.issued)
    /\ ParseInt(U.expires) < ParseInt(C.issued)

\* U's `p` names C's author and the schema lets U's class issue C's class
Authorizes(U, C, classes) ==
    /\ U.p = C.pubkey
    /\ C.class \in DOMAIN classes /\ U.class \in DOMAIN classes
    /\ U.class \in classes[C.class].issued_by
    /\ C.class \in classes[U.class].scope

\* C5: a VALID result with chain_depth >= 1 has, on every walked link,
\* U.issued <= C.issued and, when U.expires is numeric, U.expires >= C.issued;
\* and a grant whose issuer's credential had expired before the grant's
\* issued time is INVALID, with the reason "expired at issuance" when the
\* link is otherwise in order.
C5_AuthorityAtIssuance ==
    ret.op = "verify" =>
        /\ ret.status = "VALID" /\ ret.chain_depth >= 1 =>
              \A i \in 1..Len(ret.walked) :
                  LET U == ret.walked[i]
                      C == Downstream(ret, i)
                  IN  /\ Numeric(U.issued) /\ Numeric(C.issued)
                      /\ ParseInt(U.issued) <= ParseInt(C.issued)
                      /\ Numeric(U.expires) =>
                            ParseInt(U.expires) >= ParseInt(C.issued)
        /\ ret.walked # <<>> /\ ExpiredBefore(ret.walked[1], ret.event) =>
              /\ ret.status = "INVALID"
              /\ /\ Authorizes(ret.walked[1], ret.event, ClassesOf(ret.event))
                 /\ ParseInt(ret.walked[1].issued) <= ParseInt(ret.event.issued)
                 => ret.reason = "issuer credential was expired at issuance time"

\* C6: a VALID result with chain_depth >= 1 has, on every walked link, U's p
\* tag equal to C's author, U's class in issued_by of C's class and C's class
\* in scope of U's class; and a grant issued by the holder of a class with
\* empty scope is INVALID with the reason that names the scope.
C6_LinkChecks ==
    ret.op = "verify" =>
        /\ ret.status = "VALID" /\ ret.chain_depth >= 1 =>
              \A i \in 1..Len(ret.walked) :
                  Authorizes(ret.walked[i], Downstream(ret, i), ClassesOf(ret.event))
        /\ /\ ret.walked # <<>>
           /\ ret.walked[1].p = ret.event.pubkey
           /\ ret.walked[1].class \in DOMAIN ClassesOf(ret.event)
           /\ ClassesOf(ret.event)[ret.walked[1].class].scope = {}
           => ret.status = "INVALID" /\ ret.reason = ReasonLacksScope

\* C7: verify never returns VALID for a grant citing one schema while a grant
\* on its walked chain cites another, the same root and class ids included.
C7_NoCrossSchemaChain ==
    ret.op = "verify" /\ ret.status = "VALID" =>
        \A i \in 1..Len(ret.walked) : ret.walked[i].a = ret.event.a

\* C8: one call of verify performs at most 5 findCredentialEvent lookups,
\* while it runs and when it has returned.
C8_AtMostFiveLookups ==
    /\ vc.lookups <= 5
    /\ ret.op = "verify" => ret.lookups <= 5

\* a verify that looked up five upstream grants
C8_FiveLookups == ret.op = "verify" /\ ret.lookups = 5

\* the stored grants a grant's chain tag resolves to
Resolves(g) ==
    {x \in events : /\ x.kind = EVENT_KINDS.CREDENTIAL_GRANT
                    /\ Len(g.chain) >= 3
                    /\ x.pubkey = g.chain[2]
                    /\ x.d = SubSeq(g.chain, 3, Len(g.chain))}

\* the first n upstream grants of a grant, as far as the store resolves them
RECURSIVE UpstreamChain(_, _)
UpstreamChain(g, n) ==
    IF n = 0 \/ Resolves(g) = {} THEN <<>>
    ELSE LET u == CHOOSE x \in Resolves(g) : TRUE
         IN  <<u>> \o UpstreamChain(u, n - 1)

\* a grant of a root-issued class signed by the schema's author
RootIssued(g, classes) ==
    /\ g.class \in DOMAIN classes /\ "root" \in classes[g.class].issued_by
    /\ Len(g.a) >= 2 /\ g.pubkey = g.a[2]

\* the link from U down to C passes the per-link checks
LinkPasses(U, C, classes) ==
    /\ Authorizes(U, C, classes)
    /\ Numeric(U.issued) /\ Numeric(C.issued)
    /\ ParseInt(U.issued) <= ParseInt(C.issued)
    /\ ~ExpiredBefore(U, C)

\* the chain of a grant passes every link check and reaches its first
\* root-issued grant at the sixth upstream grant
SixthIsRoot(g) ==
    LET w == UpstreamChain(g, 6)
        classes == ClassesOf(g)
        Down(i) == IF i = 1 THEN g ELSE w[i - 1]
    IN  /\ Len(w) = 6
        /\ ~RootIssued(g, classes)
        /\ \A i \in 1..6 : LinkPasses(w[i], Down(i), classes)
        /\ \A i \in 1..5 : ~RootIssued(w[i], classes)
        /\ RootIssued(w[6], classes)

\* C9: verify returns VALID only with chain_depth in 0..5, and a grant whose
\* first root-issued upstream grant is the sixth is INVALID, chain too deep.
C9_DepthLimit ==
    ret.op = "verify" =>
        /\ ret.status = "VALID" => ret.chain_depth \in 0..5
        /\ SixthIsRoot(ret.event) =>
              ret.status = "INVALID" /\ ret.reason = "chain too deep (max 5)"

\* verify has returned for a grant six links below the root
C9_SixLinks ==
    /\ ret.op = "verify" /\ SixthIsRoot(ret.event)
    /\ ret.status = "INVALID" /\ Len(ret.walked) = 5

ExpiryInEffect(g) ==
    IF g.id \in DOMAIN credentials /\ credentials[g.id].expires_at # Null
    THEN credentials[g.id].expires_at
    ELSE IF g.expires # Undefined /\ Numeric(g.expires) THEN ParseInt(g.expires)
    ELSE Null

\* the revoked flag of a grant's row in the credential index
RevokedInIndex(g) == g.id \in DOMAIN credentials /\ credentials[g.id].revoked = 1

\* a grant with its required tags that is not revoked, not expired at now, and
\* whose schema and class resolve
Resolved(g, now) ==
    /\ g.kind = EVENT_KINDS.CREDENTIAL_GRANT
    /\ g.a # NoParts /\ ~Falsy(g.class) /\ ~Falsy(g.issued)
    /\ ~RevokedInIndex(g)
    /\ ExpiryInEffect(g) = Null \/ ExpiryInEffect(g) >= now
    /\ ParsedSchema(g.a).ok /\ g.class \in DOMAIN ClassesOf(g)

\* C11: a grant that is not revoked, not expired and whose schema and class
\* resolve is VALID with chain_depth 0 when its class lists "root" and its
\* author is the pubkey of the schema address, and otherwise INVALID for want
\* of a chain reference when it has no chain tag.
C11_RootOrChain ==
    ret.op = "verify" /\ Resolved(ret.event, ret.now) =>
        IF RootIssued(ret.event, ClassesOf(ret.event))
        THEN ret.status = "VALID" /\ ret.chain_depth = 0
        ELSE ret.event.chain = NoParts =>
                /\ ret.status = "INVALID"
                /\ ret.reason = "non-root issuer without chain reference"

\* verify has returned for a resolved grant, not root-issued, without chain
C11_NoChain ==
    /\ ret.op = "verify" /\ Resolved(ret.event, ret.now)
    /\ ~RootIssued(ret.event, ClassesOf(ret.event))
    /\ ret.event.chain = NoParts /\ ret.status = "INVALID"

\* a grant of a root-issued class signed by the given schema authority
RootIssuedBy(g, authority, classes) ==
    /\ g.class \in DOMAIN classes /\ "root" \in classes[g.class].issued_by
    /\ g.pubkey = authority

\* C12: the chain_depth of a VALID result is the number of upstream grants
\* walked, each the grant its downstream's chain tag names, up to and
\* including the first one of a root-issued class signed by the schema
\* authority; it is 0 exactly for a root-issued grant.
C12_DepthCountsWalked ==
    ret.op = "verify" /\ ret.status = "VALID" =>
        LET w == ret.walked
            classes == ClassesOf(ret.event)
            authority == ret.event.a[2]
        IN  /\ ret.chain_depth = Len(w)
            /\ \A i \in 1..Len(w) : w[i] \in Resolves(Downstream(ret, i))
            /\ \A i \in 1..Len(w) :
                  RootIssuedBy(w[i], authority, classes) <=> i = Len(w)
            /\ RootIssuedBy(ret.event, authority, classes) <=> w = <<>>

\* verify has returned VALID two grants below the root
C12_DepthTwo ==
    /\ ret.op = "verify" /\ ret.status = "VALID" /\ ret.chain_depth = 2
    /\ Len(ret.walked) = 2 /\ ret.walked[2].pubkey = ret.event.a[2]

\* the stored grants a grant's chain tag names whose index row was revoked
\* at or before the grant's issued time
RevokedBeforeIssue(g) ==
    {u \in Resolves(g) :
        /\ RevokedInIndex(u) /\ Numeric(g.issued)
        /\ credentials[u.id].revoked_at # Null
        /\ credentials[u.id].revoked_at <= ParseInt(g.issued)}

\* C13: a grant whose chain tag names a grant revoked at or before the
\* grant's issued time does not verify as VALID, whatever cascade_revoke is.
C13_IssuerRevokedBeforeIssue ==
    ret.op = "verify" /\ RevokedBeforeIssue(ret.event) # {} =>
        ret.status # "VALID"

\* the link from U down to C is one the cascade rule invalidates: U is
\* revoked in the index at or before C's issued time and U's class cascades
CascadeApplies(U, C, classes) ==
    /\ RevokedInIndex(U)
    /\ U.class \in DOMAIN classes /\ classes[U.class].cascade_revoke
    /\ Numeric(C.issued)
    /\ credentials[U.id].revoked_at # Null
    /\ credentials[U.id].revoked_at <= ParseInt(C.issued)

\* C14: on every walked link that passes the checks before it, an upstream
\* grant revoked in the index at or before the downstream's issued time,
\* of a class with cascade_revoke = true, makes verify return INVALID with the
\* cascade reason.
C14_CascadeRevocation ==
    ret.op = "verify" =>
        \A i \in 1..Len(ret.walked) :
            /\ LinkPasses(ret.walked[i], Downstream(ret, i), ClassesOf(ret.event))
            /\ CascadeApplies(ret.walked[i], Downstream(ret, i), ClassesOf(ret.event))
            => /\ ret.status = "INVALID"
               /\ ret.reason = "issuer credential was revoked (cascade)"

\* C is a grant one valid link below a root-issued grant U, and every saved
\* revocation of U is dated strictly after C was issued
RevokedOnlyLater(U, C, now) ==
    /\ Resolved(C, now) /\ Resolves(C) = {U}
    /\ ~RootIssued(C, ClassesOf(C)) /\ RootIssued(U, ClassesOf(C))
    /\ LinkPasses(U, C, ClassesOf(C))
    /\ \A rv \in saved : RefersTo(rv, U) => rv.created_at > ParseInt(C.issued)

RenewedByAddress(g, now) ==
    \E rn \in saved :
        /\ rn.kind = EVENT_KINDS.CREDENTIAL_RENEWAL
        /\ <<g.id, rn.id>> \in addressed
        /\ Numeric(rn.expires) /\ ParseInt(rn.expires) > now

\* C16: a stored, non-revoked, root-issued grant whose expires tag is in the
\* past verifies as VALID once a renewal naming its composite address with an
\* expiry later than now has been saved.
C16_RenewalResurrects ==
    /\ ret.op = "verify" /\ ret.event \in events
    /\ ret.event.kind = EVENT_KINDS.CREDENTIAL_GRANT
    /\ ~Falsy(ret.event.issued) /\ ~RevokedInIndex(ret.event)
    /\ ParsedSchema(ret.event.a).ok
    /\ RootIssued(ret.event, ClassesOf(ret.event))
    /\ Numeric(ret.event.expires) /\ ParseInt(ret.event.expires) < ret.now
    /\ RenewedByAddress(ret.event, ret.now)
    => ret.status = "VALID"

\* C17: saving a renewal leaves the index row of every revoked grant as it
\* was, the grant it references included, and verify of a grant whose row is
\* revoked returns REVOKED.
C17_RenewalSkipsRevoked ==
    /\ [][ret'.op = "saveEvent"
            /\ ret'.event.kind = EVENT_KINDS.CREDENTIAL_RENEWAL
          => \A id \in DOMAIN credentials :
                credentials[id].revoked = 1 =>
                    /\ id \in DOMAIN credentials'
                    /\ credentials'[id] = credentials[id]]_vars
    /\ [](/\ ret.op = "verify" /\ RevokedInIndex(ret.event)
          /\ ret.event.kind = EVENT_KINDS.CREDENTIAL_GRANT
          /\ ret.event.a # NoParts /\ ~Falsy(ret.event.class)
          /\ ~Falsy(ret.event.issued)
          => ret.status = "REVOKED")

\* the renewal just saved names, by event id, a grant whose row is revoked
C17_RenewedWhileRevoked ==
    /\ ret.op = "saveEvent"
    /\ ret.event.kind = EVENT_KINDS.CREDENTIAL_RENEWAL
    /\ Len(ret.event.a) >= 3 /\ ret.event.a[3] \in DOMAIN credentials
    /\ credentials[ret.event.a[3]].revoked = 1
    /\ credentials[ret.event.a[3]].expires_at # ParseInt(ret.event.expires)

\* C18: a grant of a class with renewable = false whose expires tag is in the
\* past verifies as EXPIRED, whatever renewals have been saved.
C18_NonRenewableStaysExpired ==
    /\ ret.op = "verify"
    /\ ret.event.kind = EVENT_KINDS.CREDENTIAL_GRANT
    /\ ret.event.a # NoParts /\ ~Falsy(ret.event.class) /\ ~Falsy(ret.event.issued)
    /\ ~RevokedInIndex(ret.event)
    /\ ret.event.class \in DOMAIN ClassesOf(ret.event)
    /\ ~ClassesOf(ret.event)[ret.event.class].renewable
    /\ Numeric(ret.event.expires) /\ ParseInt(ret.event.expires) < ret.now
    => ret.status = "EXPIRED"

\* a renewal that names the grant by its event id, as the store resolves it
RenewsById(rn, g) ==
    /\ rn.kind = EVENT_KINDS.CREDENTIAL_RENEWAL
    /\ g.kind = EVENT_KINDS.CREDENTIAL_GRANT
    /\ RefersToGrant(rn.a) /\ rn.a[3] = g.id
    /\ rn.expires # Undefined /\ Numeric(rn.expires)

\* the renewal asks for more than max_days of the grant's class from its date
ExceedsMaxDays(rn, g) ==
    /\ ParsedSchema(g.a).ok /\ g.class \in DOMAIN ClassesOf(g)
    /\ ClassesOf(g)[g.class].max_days # Null
    /\ ParseInt(rn.expires) >
          rn.created_at + ClassesOf(g)[g.class].max_days * SecondsPerDay

\* C19: a renewal dated t of a grant whose class has max_days does not bring
\* the expiry in effect for the grant beyond t + max_days * 86400.
C19_RenewalWithinMaxDays ==
    \A g \in saved, rn \in saved :
        RenewsById(rn, g) /\ ExceedsMaxDays(rn, g) =>
            ExpiryInEffect(g) # ParseInt(rn.expires)

\* a revocation that names the grant by its event id, as the store resolves it
RevokesById(rv, g) ==
    /\ rv.kind = EVENT_KINDS.CREDENTIAL_REVOCATION
    /\ g.kind = EVENT_KINDS.CREDENTIAL_GRANT
    /\ RefersToGrant(rv.a) /\ rv.a[3] = g.id

\* e is, among the saved events that stand in relation Rel to the grant, one
\* of greatest created_at, and it is dated after the event x
LatestAndAfter(e, x, g, Rel(_, _)) ==
    /\ e \in saved /\ Rel(e, g)
    /\ \A o \in saved : Rel(o, g) => o.created_at <= e.created_at
    /\ e.created_at > x.created_at

\* C20: the index of a grant keeps the expires_at of the renewal, and the
\* revoked_at and revoke_reason of the revocation, of greatest created_at:
\* saving an older renewal or revocation of the grant afterwards does not
\* replace them.
C20_LatestWins ==
    [][\A g \in saved :
          /\ ret'.op = "saveEvent" /\ g.id \in DOMAIN credentials
          /\ g.id \in DOMAIN credentials'
          => /\ \A e \in saved :
                   /\ RenewsById(ret'.event, g)
                   /\ LatestAndAfter(e, ret'.event, g, RenewsById)
                   /\ credentials[g.id].expires_at = ParseInt(e.expires)
                   => credentials'[g.id].expires_at = ParseInt(e.expires)
             /\ \A e \in saved :
                   /\ RevokesById(ret'.event, g)
                   /\ LatestAndAfter(e, ret'.event, g, RevokesById)
                   /\ credentials[g.id].revoked_at = e.created_at
                   => /\ credentials'[g.id].revoked_at = e.created_at
                      /\ credentials'[g.id].revoke_reason = e.reason]_vars

\* C21: saveEvent called with an event that is already stored returns true
\* and leaves the events table, the credential index and the schema cache
\* exactly as they were.
C21_IdempotentSave ==
    [][ret'.op = "saveEvent" /\ ret'.event \in events
       => /\ ret'.ok
          /\ events' = events
          /\ credentials' = credentials
          /\ schemas' = schemas]_vars

\* C22: a saveEvent call that returns false leaves the events table, the
\* credential index and the schema cache exactly as they were; no stored
\* replaceable event has been removed.
C22_FailedSaveChangesNothing ==
    [][ret'.op = "saveEvent" /\ ~ret'.ok
       => /\ events' = events
          /\ credentials' = credentials
          /\ schemas' = schemas]_vars

\* a kind number as a template literal writes it
KindString(k) ==
    CASE k = 30100 -> "30100"
      [] k = 30101 -> "30101"
      [] k = 30102 -> "30102"
      [] k = 30103 -> "30103"

\* the schema events saved so far by one author under one d tag
SavedSchemas(pubkey, d) ==
    {e \in saved : /\ e.kind = EVENT_KINDS.CREDENTIAL_SCHEMA
                   /\ e.pubkey = pubkey
                   /\ e.d = d}

\* C23: one kind mapping is used everywhere.  The kind a schema event is
\* recognised by is the prefix of its address in the schema cache: once a
\* schema of author A and d tag D is saved, getSchema("<schema kind>:A:D")
\* returns a row; and the kind verify accepts as a grant is the kind a chain
\* reference and the `a` tag of a revocation or renewal must carry.
C23_OneKindMapping ==
    [][/\ ret'.op = "getSchema"
       /\ ret'.ref[1] = KindString(EVENT_KINDS.CREDENTIAL_SCHEMA)
       /\ SavedSchemas(ret'.ref[2], SubSeq(ret'.ref, 3, Len(ret'.ref))) # {}
       => /\ ret'.row # {}
          /\ ChainRefKind = EVENT_KINDS.CREDENTIAL_GRANT
          /\ RefersToGrant(<<KindString(EVENT_KINDS.CREDENTIAL_GRANT),
                             ret'.ref[2], "g">>)]_vars

\* C24: after schema events of one (author, d) have been saved in any order,
\* getSchema returns the content of the one with the greatest
\* (created_at, id), the event queryEvents returns for that address.
C24_SchemaCacheFollowsLatest ==
    [][/\ ret'.op = "getSchema"
       /\ ret'.ref[1] = "30300"
       /\ SavedSchemas(ret'.ref[2], SubSeq(ret'.ref, 3, Len(ret'.ref))) # {}
       => \E row \in ret'.row :
             \E e \in SavedSchemas(ret'.ref[2], SubSeq(ret'.ref, 3, Len(ret'.ref))) :
                /\ Greatest(e, SavedSchemas(e.pubkey, e.d))
                /\ row.content = e.content]_vars

\* two events of one replaceable address and one created_at
Tied(e1, e2) ==
    /\ HasAddress(e1) /\ HasAddress(e2)
    /\ AddressFilter(e1) = AddressFilter(e2)
    /\ e1.created_at = e2.created_at
    /\ IdLess(e1.id, e2.id)

\* C25: when two events of one (kind, author, d) and one created_at have both
\* been saved, in either order, the one retained is the one whose id is
\* lexicographically smaller.
C25_TieKeepsSmallerId ==
    \A e1 \in saved, e2 \in saved :
       Tied(e1, e2) => /\ e2 \notin events
                       /\ Greatest(e2, SavedAt(AddressFilter(e2))) => e1 \in events

\* the OK messages among the messages a handler sent to a client
OKs(sent, client) ==
    {i \in 1..Len(sent) : sent[i].to = client /\ sent[i].msg.type = "OK"}

\* the handler sent something to a subscription
Broadcasts(sent) == \E i \in 1..Len(sent) : sent[i].msg.type = "EVENT"

\* the handleEvent call that is returning ran validateEvent,
\* validateCredentialGrant and verify on the event and all three passed
PassedAdmission(event) ==
    /\ validateEvent(event).valid
    /\ validateCredentialGrant(event).valid
    /\ handling.event = event
    /\ ret.op = "verify" /\ ret.event = event /\ ret.status = "VALID"

\* C26: the relay stores and broadcasts a grant only if validateEvent and
\* validateCredentialGrant pass and verify returns VALID at admission; in
\* every other case it answers OK with accepted = false and the events
\* table, the credential index and the schema cache stay as they were.
C26_GrantAdmission ==
    [][ret'.op = "EVENT" /\ ret'.event.kind = EVENT_KINDS.CREDENTIAL_GRANT
       => LET event == ret'.event
              accepted == \E i \in OKs(ret'.sent, ret'.client) :
                             ret'.sent[i].msg.accepted
          IN  /\ (events' # events \/ Broadcasts(ret'.sent) \/ accepted)
                    => PassedAdmission(event)
              /\ ~accepted =>
                    /\ \E i \in OKs(ret'.sent, ret'.client) :
                          ~ret'.sent[i].msg.accepted
                    /\ events' = events
                    /\ credentials' = credentials
                    /\ schemas' = schemas]_vars

\* C27: every inbound EVENT message is answered by exactly one OK message on
\* the connection it came in on, whatever the event is.
C27_OneOKPerEvent ==
    [][ret'.op = "EVENT" => Cardinality(OKs(ret'.sent, ret'.client)) = 1]_vars

\* C28: a REQ message is answered by EVENT messages that carry its
\* subscription id, one for each stored event that matches one of its
\* filters and none twice, followed by exactly one EOSE; a CLOSE message is
\* answered by exactly one CLOSED.
C28_ReqAndClose ==
    [][/\ ret'.op = "REQ" =>
            LET sent == ret'.sent
                n == Len(sent)
            IN  /\ n >= 1
                /\ sent[n] = Message(ret'.client,
                                     [type |-> "EOSE", sub |-> ret'.sub])
                /\ \A i \in 1..(n - 1) :
                      /\ sent[i].to = ret'.client
                      /\ sent[i].msg.type = "EVENT"
                      /\ sent[i].msg.sub = ret'.sub
                      /\ sent[i].msg.event \in events
                      /\ \A j \in 1..(n - 1) :
                            sent[i].msg.event.id = sent[j].msg.event.id => i = j
       /\ ret'.op = "CLOSE" =>
            ret'.sent = <<Message(ret'.client,
                                  [type |-> "CLOSED", sub |-> ret'.sub])>>]_vars

\* a REQ with two filters was answered, and a stored event that both
\* filters match was sent
C28_SharedEventSent ==
    /\ ret.op = "REQ"
    /\ Len(ret.filters) = 2
    /\ \E i \in 1..Len(ret.sent) :
          /\ ret.sent[i].msg.type = "EVENT"
          /\ ret.sent[i].msg.event \in Matches(events, ret.filters[1], clock)
          /\ ret.sent[i].msg.event \in Matches(events, ret.filters[2], clock)

\* the tags validateCredentialGrant asks for are all there
HasGrantTags(e) ==
    /\ e.d # NoParts /\ e.a # NoParts
    /\ e.p # Undefined /\ e.class # Undefined
    /\ e.issued # Undefined /\ e.expires # Undefined

\* the expiry of a grant agrees with the max_days of its class
ExpiryAllowed(e, max_days) ==
    \/ e.expires = "perpetual" /\ max_days = Null
    \/ /\ Numeric(e.issued) /\ Numeric(e.expires)
       /\ max_days # Null =>
             ParseInt(e.expires) <= ParseInt(e.issued) + max_days * 86400

\* C29: validateCredentialGrant returns valid only if the d, p, a, class,
\* issued and expires tags are all present, the schema the `a` tag names is
\* cached, the class is one of its classes, and either expires is
\* "perpetual" and the max_days of the class is null, or issued and expires
\* parse as integers and expires <= issued + max_days * 86400 whenever
\* max_days is not null.
C29_ValidGrantIsWellFormed ==
    \A e \in RelayEvents :
       validateCredentialGrant(e).valid =>
          /\ HasGrantTags(e)
          /\ e.a \in DOMAIN schemas
          /\ JSONParse(schemas[e.a].content).ok
          /\ e.class \in DOMAIN JSONParse(schemas[e.a].content).classes
          /\ ExpiryAllowed(e, JSONParse(schemas[e.a].content).classes[e.class].max_days)

\* handleEvent has taken a grant with a numeric expiry, of a class that has
\* a max_days, through validateCredentialGrant
C29_DatedGrantValidated ==
    /\ handling.event \in RelayEvents
    /\ validateCredentialGrant(handling.event).valid
    /\ handling.event.expires # "perpetual"
    /\ ClassesOf(handling.event)[handling.event.class].max_days # Null

\* the names in the scope and issued_by of the classes of a schema document
\* that are neither a class id of the document nor, in issued_by, "root"
UnknownScope(classes) ==
    UNION {classes[c].scope \ DOMAIN classes : c \in DOMAIN classes}

UnknownIssuers(classes) ==
    UNION {classes[c].issued_by \ (DOMAIN classes \cup {"root"}) :
              c \in DOMAIN classes}

\* C30: validateSchema returns valid only if every class id in the scope of
\* a class is a class of the schema and every issued_by entry is "root" or
\* a class of the schema; a schema whose scope names an unknown class is
\* refused, with a reason that names such a class.
C30_ValidSchemaResolves ==
    [][ret'.op = "EVENT" /\ ret'.event.kind = EVENT_KINDS.CREDENTIAL_SCHEMA
       => LET classes == JSONParse(ret'.event.content).classes
          IN  \A v \in validateSchema(ret'.event) :
                 /\ v.valid => UnknownScope(classes) = {}
                                  /\ UnknownIssuers(classes) = {}
                 /\ UnknownScope(classes) # {} =>
                       /\ ~v.valid
                       /\ \E c \in DOMAIN classes, x \in UnknownScope(classes) :
                             v.reason = <<"scope references unknown class", c, x>>]_vars

\* C31: validateSchema rejects a schema whose classes mapping is empty, and
\* a schema with a class definition that lacks a required field or has one
\* of the wrong type.
C31_EmptyOrMalformedSchemaRejected ==
    [][/\ ret'.op = "EVENT"
       /\ ret'.event.kind = EVENT_KINDS.CREDENTIAL_SCHEMA
       /\ JSONParse(ret'.event.content).ok
       /\ LET classes == JSONParse(ret'.event.content).classes
          IN  \/ DOMAIN classes = {}
              \/ \E c \in DOMAIN classes : classes[c].missing # {}
       => \A v \in validateSchema(ret'.event) : ~v.valid]_vars

\* C32: verify applies its outcomes in the order revoked, expired,
\* schema and class resolution, authority.  A grant that is revoked yields
\* REVOKED also when it is past its expiry; a grant that is not revoked and
\* whose expiry in effect is a number below now yields EXPIRED with that
\* expiry, whatever its schema and chain are; a grant whose expiry in
\* effect equals now is not EXPIRED.
C32_OutcomeOrder ==
    /\ ret.op = "verify"
    /\ ret.event.kind = EVENT_KINDS.CREDENTIAL_GRANT
    /\ ret.event.a # NoParts /\ ~Falsy(ret.event.class) /\ ~Falsy(ret.event.issued)
    => LET g == ret.event
           expiry == ExpiryInEffect(g)
       IN  /\ RevokedInIndex(g) => ret.status = "REVOKED"
           /\ ~RevokedInIndex(g) /\ expiry # Null /\ expiry < ret.now
                 => ret.status = "EXPIRED" /\ ret.expired_at = expiry
           /\ ~RevokedInIndex(g) /\ expiry = ret.now => ret.status # "EXPIRED"

\* C33: a kind 5 deletion removes an event only if the deletion's author is
\* the event's author; a deletion that names only events of other authors
\* removes nothing, and only the deletion event itself is added.
C33_DeletionByAuthorOnly ==
    [][/\ ret'.op = "EVENT"
       /\ ret' # ret
       /\ ret'.event.kind = EVENT_KINDS.DELETE
       => LET deletion == ret'.event
          IN  /\ \A x \in events \ events' :
                    x.id \in deletion.e /\ x.pubkey = deletion.pubkey
              /\ (\A x \in events : x.id \in deletion.e => x.pubkey # deletion.pubkey)
                    => /\ events \subseteq events'
                       /\ events' \subseteq events \cup {deletion}
                       /\ credentials' = credentials]_vars

\* a deletion was accepted and an event it names, by another author, is stored
C33_ForeignDeletionAccepted ==
    /\ ret.op = "EVENT"
    /\ ret.event.kind = EVENT_KINDS.DELETE
    /\ ret.event \in events
    /\ \E x \in events : x.id \in ret.event.e /\ x.pubkey # ret.event.pubkey

\* C34: immediately after saveEvent has accepted an event, getEvent(id)
\* returns that event; if the event is a grant carrying a, class, p and issued
\* tags, the credential index holds one row for its id, with schema_ref,
\* class_id, recipient, issuer and issued_at equal to the event's tags and
\* author and with revoked = 0, and getCredential(id) and
\* getCredentialsByRecipient(p) return that row.
C34_SavedEventIsIndexed ==
    ret.op = "saveEvent" /\ ret.ok =>
        LET e == ret.event
            \* SELECT * FROM events WHERE id = ?
            getEvent == {x \in events : x.id = e.id}
            \* SELECT * FROM credentials WHERE recipient = ?
            byRecipient == {id \in DOMAIN credentials :
                               credentials[id].recipient = e.p}
        IN  /\ getEvent = {e}
            /\ /\ e.kind = EVENT_KINDS.CREDENTIAL_GRANT
               /\ ~FalsyParts(e.a) /\ ~Falsy(e.class) /\ ~Falsy(e.p)
               /\ ~Falsy(e.issued)
               => /\ e.id \in DOMAIN credentials
                  /\ e.id \in byRecipient
                  /\ \A row \in getCredential(credentials, e.id) :
                        /\ row.schema_ref = e.a
                        /\ row.class_id = e.class
                        /\ row.recipient = e.p
                        /\ row.issuer = e.pubkey
                        /\ Numeric(e.issued) /\ row.issued_at = ParseInt(e.issued)
                        /\ row.revoked = 0

\* saveEvent has accepted a grant with its tags and its row is in the index
C34_GrantIndexed ==
    /\ ret.op = "saveEvent" /\ ret.ok
    /\ ret.event.kind = EVENT_KINDS.CREDENTIAL_GRANT
    /\ ~IndexSkips(ret.event)
    /\ ret.event.id \in DOMAIN credentials

\* C35: queryEvents never returns an event whose expiration tag lies in the
\* past relative to the current wall time, whatever the filter; an event
\* without an expiration tag is never left out on account of the time.
C35_ExpiredNeverReturned ==
    ret.op = "queryEvents" =>
        /\ \A i \in 1..Len(ret.rows) :
              LET r == ret.rows[i]
              IN  ~(r.expiration # Undefined /\ Numeric(r.expiration)
                    /\ ParseInt(r.expiration) < clock)
        /\ \A x \in events :
              /\ x.expiration = Undefined
              /\ HasAddress(x) /\ AddressFilter(x) = ret.filter
              => \E i \in 1..Len(ret.rows) : ret.rows[i] = x

\* queryEvents has been asked for the address of a stored event whose
\* expiration lies in the past, and has returned without it
C35_ExpiredEventLeftOut ==
    /\ ret.op = "queryEvents"
    /\ \E x \in events :
          /\ HasAddress(x) /\ AddressFilter(x) = ret.filter
          /\ x.expiration # Undefined /\ Numeric(x.expiration)
          /\ ParseInt(x.expiration) < clock
          /\ \A i \in 1..Len(ret.rows) : ret.rows[i] # x

\* C36: every component that resolves a reference "<kind>:<pubkey>:<tail>"
\* takes the whole tail after the second colon, colons included, to
\* designate the grant; so a revocation or renewal changes the index row of
\* a grant only if the whole tail of its `a` tag is what designates that
\* grant, be it by d-tag or by event id.
C36_WholeTailDesignates ==
    [][/\ ret'.op = "saveEvent"
       /\ ret'.event.kind \in {EVENT_KINDS.CREDENTIAL_REVOCATION,
                               EVENT_KINDS.CREDENTIAL_RENEWAL}
       => \A id \in DOMAIN credentials \cap DOMAIN credentials' :
             credentials'[id] # credentials[id] =>
                LET a == ret'.event.a
                    tail == SubSeq(a, 3, Len(a))
                IN  /\ Len(a) >= 3
                    /\ \E g \in events :
                          g.id = id /\ (tail = g.d \/ tail = <<g.id>>)]_vars

\* C37: when the relay accepts an event, every open subscription of every
\* connected client whose filters match it receives exactly one EVENT
\* message under its own subscription id, also when one client holds
\* several matching subscriptions; a subscription whose filters do not match
\* receives none.
C37_OneEventPerMatchingSubscription ==
    /\ ret.op = "EVENT"
    /\ ret.sent[1].msg.type = "OK" /\ ret.sent[1].msg.accepted
    => \A c \in DOMAIN subscriptions : \A i \in 1..Len(subscriptions[c]) :
          LET sub == subscriptions[c][i]
              delivered == {k \in 1..Len(ret.sent) :
                              /\ ret.sent[k].to = c
                              /\ ret.sent[k].msg.type = "EVENT"
                              /\ ret.sent[k].msg.sub = sub.id}
          IN  Cardinality(delivered) =
                 IF matchesFilters(ret.event, sub.filters) THEN 1 ELSE 0

\* C38: after CLOSE for a subscription id the client holds no subscription
\* of that id, and after a disconnect the client is gone, so that an event
\* accepted later is delivered only under subscriptions that are open at
\* that time; the subscriptions of the other clients, the store and an
\* admission in progress are left as they were.
C38_ClosedSubscriptionsSilent ==
    [][/\ ret'.op = "CLOSE" =>
             /\ \A i \in 1..Len(subscriptions'[ret'.client]) :
                   subscriptions'[ret'.client][i].id # ret'.sub
             /\ DOMAIN subscriptions' = DOMAIN subscriptions
             /\ \A c \in DOMAIN subscriptions \ {ret'.client} :
                   subscriptions'[c] = subscriptions[c]
             /\ UNCHANGED <<events, credentials, schemas, handling, vc>>
       /\ ret'.op = "DISCONNECT" =>
             /\ DOMAIN subscriptions' = DOMAIN subscriptions \ {ret'.client}
             /\ \A c \in DOMAIN subscriptions' :
                   subscriptions'[c] = subscriptions[c]
             /\ UNCHANGED <<events, credentials, schemas, handling, vc>>
       /\ ret'.op = "EVENT" =>
             \A k \in 1..Len(ret'.sent) :
                ret'.sent[k].msg.type = "EVENT" =>
                   /\ ret'.sent[k].to \in DOMAIN subscriptions'
                   /\ \E i \in 1..Len(subscriptions'[ret'.sent[k].to]) :
                         subscriptions'[ret'.sent[k].to][i].id
                            = ret'.sent[k].msg.sub]_vars

\* an event was accepted after a client had disconnected, and was delivered
\* under a subscription of the other client
C38_DeliveredAfterDisconnect ==
    /\ ret.op = "EVENT"
    /\ DOMAIN subscriptions # {ClientOrder[i] : i \in 1..Len(ClientOrder)}
    /\ \E k \in 1..Len(ret.sent) : ret.sent[k].msg.type = "EVENT"

\* C39: verify, validateCredentialGrant and validateSchema are read-only:
\* a step of verify, the return of verify and a refusal by one of the
\* validators or by verify leave the events table, the credential index and
\* the schema cache as they were, whatever the input and the result.
C39_ValidationReadsOnly ==
    [][\/ vc' # vc
       \/ ret'.op = "verify" /\ ret' # ret
       \/ /\ ret'.op = "EVENT" /\ ret' # ret
          /\ \/ ret'.sent[1].msg.type = "NOTICE"
             \/ /\ ret'.sent[1].msg.type = "OK"
                /\ ~ret'.sent[1].msg.accepted
                /\ Head(ret'.sent[1].msg.message) = "invalid"
       => UNCHANGED <<events, credentials, schemas>>]_vars

\* verify has returned in the course of an admission, the index holding rows
C39_VerifiedOverIndex ==
    /\ ret.op = "verify"
    /\ handling # NotHandling
    /\ DOMAIN credentials # {}

\* C40: in every reachable state the event_id of each row of the credential
\* index is the id of a grant event that is in the events table; when a
\* grant is superseded or deleted, its row goes with it.
C40_IndexRowsHaveEvents ==
    \A id \in DOMAIN credentials :
       \E e \in events : e.id = id /\ e.kind = EVENT_KINDS.CREDENTIAL_GRANT

\* a grant that was admitted and indexed has been deleted by a kind 5 event,
\* and neither the grant nor its row is left
C40_DeletedGrantUnindexed ==
    /\ ret.op = "EVENT"
    /\ ret.event.kind = EVENT_KINDS.DELETE
    /\ \E g \in saved :
          /\ g.kind = EVENT_KINDS.CREDENTIAL_GRANT
          /\ ~IndexSkips(g) /\ ~IndexThrows(g)
          /\ g.id \in ret.event.e
          /\ g \notin events
          /\ g.id \notin DOMAIN credentials

====
